---- MODULE Spec2Model ----
(***************************************************************************)
(* Cosmic-ray detection and iterative removal (el_ltp_tools/util/cosmic.py, *)
(* src/cosmic.py), multi-image combination, directory grouping and          *)
(* measurement processing (el_ltp_tools/image_combine/__init__.py) and      *)
(* multi-detector integration (el_ltp_tools/diffraction/__init__.py), and   *)
(* the main window and worker threads of the image-combine GUI              *)
(* (el_ltp_tools/image_combine/gui.py).                                     *)
(*                                                                         *)
(* Pixel values are exact rationals <<numerator, denominator>> with a      *)
(* positive denominator; the float NaN is the pair <<0, 0>>.  An image is  *)
(* a record [shape |-> <<h, w>>, px |-> function on PixelsOf(<<h, w>>)].   *)
(* Indices are 0-based as in numpy.                                        *)
(***************************************************************************)
EXTENDS Integers, Sequences, FiniteSets, TLC

VARIABLES
    \* ---- one call of detect_cosmic_rays ----
    data,            \* the image passed to detect_cosmic_rays
    sigma,           \* z-score threshold
    window_size,     \* side of the local window
    min_intensity,   \* intensity floor
    detect_pc,       \* "idle" before the call, "returned" after it
    detect_mask,     \* the mask returned by detect_cosmic_rays
    \* ---- one call of combine_images_in_directory ----
    directory,       \* the directory's entries in os.listdir order: [ext, data]
    cosmic_sigma, cosmic_window, cosmic_iterations, cosmic_min,
    pc,              \* position inside combine_images_in_directory
    imgs_data,       \* the float arrays, NaN'd in place by get_cosmic_mask
    cosmic_masks,    \* the combined mask of every image processed so far
    cur_mask,        \* combined_mask of the get_cosmic_mask call in progress
    cosmic_counts,   \* cosmic_counts of the get_cosmic_mask call in progress
    raised,          \* the exception that left the function, or "none"
    combined,        \* the returned array (shape <<0, 0>> until returned)
    \* ---- one call of apply_threshold or detect_cosmic_rays_multiple_iterations ----
    it_fn,           \* which of the two functions is called
    it_arg,          \* the caller's array (the argument object)
    it_image,        \* the array the function works on (local `data` / `image`)
    it_shares,       \* TRUE when it_image and it_arg are one buffer
    it_sigma,        \* <<>> for None, <<s>> for the number s
    it_window, it_iterations, it_min,
    it_round_masks,  \* the values `cosmic_mask` took, one per pass of the loop
    combined_mask,   \* combined_mask of detect_cosmic_rays_multiple_iterations
    it_counts,       \* cosmic_counts
    it_pc,           \* "called", "loop", "returned", "raised"
    it_raised,       \* the exception that left the function, or "none"
    it_returned,     \* the returned array (apply_threshold) or the returned mask
    \* ---- arguments shared by get_directory_groups and process_measurements ----
    input_directory, \* [exists, entries]: the entries in os.listdir order
    config,          \* the parsed configuration: a list of dicts name -> count
    \* ---- one call of get_directory_groups ----
    start_idx,
    groups_pc,       \* "called", "returned", "raised"
    groups_returned, \* [raised, groups, current_index]
    \* ---- one call of process_measurements ----
    start_index, end_index,
    callback,        \* "None" or "callable"
    failing,         \* the entries combine_images_in_directory raises on
    current_index, measurement_number,
    groups, next_index,   \* what get_directory_groups returned for this measurement
    group_i,         \* position of `for group in groups` (1-based)
    directory_i,     \* position of `for directory_name in group["directories"]`
    combined_data,   \* <<>> for None, else <<the directories summed so far>>
    written,         \* the files saved so far: [name, data, measurement, group]
    events,          \* what the call did so far, in order
    pm_pc,           \* "called", "while", "group", "directory", "returned", "raised"
    pm_raised,       \* the exception that left the function, or "none"
    \* ---- one call of integrate_multi ----
    input_files,     \* the files of input_dir
    detectors,       \* the keys of `config`, in order
    config_files,    \* per detector, the sorted list of its files
    integrated_patterns,
    xy_written,      \* the .xy files saved so far, in order
    im_pc,           \* "called", "loop", "returned", "raised"
    im_raised,
    im_returned,     \* the value returned to the caller
    \* ---- the image-combine MainWindow and its ConversionWorker threads ----
    calls,           \* "events": methods run on clicks and signals; "direct": called at will
    gui_op,          \* the MainWindow method that ran last, "none" before the first
    start_button,    \* start_button.isEnabled()
    stop_button,     \* stop_button.isEnabled()
    worker,          \* MainWindow.worker: 0 for None, else the position in `workers`
    workers,         \* every ConversionWorker constructed so far
    builtins_print,  \* the function builtins.print is bound to
    signals          \* finished / error emissions queued for the GUI thread

detect_vars == <<data, sigma, window_size, min_intensity, detect_pc, detect_mask>>
combine_vars == <<directory, cosmic_sigma, cosmic_window, cosmic_iterations,
                  cosmic_min, pc, imgs_data, cosmic_masks, cur_mask,
                  cosmic_counts, raised, combined>>
iter_vars == <<it_fn, it_arg, it_image, it_shares, it_sigma, it_window, it_iterations,
               it_min, it_round_masks, combined_mask, it_counts, it_pc, it_raised,
               it_returned>>
args_vars == <<input_directory, config>>
groups_vars == <<start_idx, groups_pc, groups_returned>>
process_vars == <<start_index, end_index, callback, failing, current_index,
                  measurement_number, groups, next_index, group_i, directory_i,
                  combined_data, written, events, pm_pc, pm_raised>>
integrate_vars == <<input_files, detectors, config_files, integrated_patterns, xy_written,
                    im_pc, im_raised, im_returned>>
gui_vars == <<calls, gui_op, start_button, stop_button, worker, workers,
              builtins_print, signals>>
rest_vars == <<iter_vars, args_vars, groups_vars, process_vars, integrate_vars, gui_vars>>
vars == <<detect_vars, combine_vars, rest_vars>>
\* what each component leaves alone
iter_frame == <<detect_vars, combine_vars, args_vars, groups_vars, process_vars,
                integrate_vars, gui_vars>>
groups_frame == <<detect_vars, combine_vars, iter_vars, process_vars, integrate_vars,
                  gui_vars>>
process_frame == <<detect_vars, combine_vars, iter_vars, groups_vars, integrate_vars,
                   gui_vars>>
integrate_frame == <<detect_vars, combine_vars, iter_vars, args_vars, groups_vars,
                     process_vars, gui_vars>>
gui_frame == <<detect_vars, combine_vars, iter_vars, args_vars, groups_vars,
               process_vars, integrate_vars>>

----------------------------------------------------------------------------
(* Bounds of the model *)
MaxH == 2              \* image heights 1..MaxH
MaxW == 3              \* image widths 1..MaxW
MaxSigma == 2          \* sigma in {0, MaxSigma}
MaxWindow == 3         \* window_size in 1..MaxWindow
MaxMinIntensity == 3   \* min_intensity in {0, MaxMinIntensity}
MaxImages == 3         \* files per directory 0..MaxImages
MaxIterations == 2     \* cosmic_iterations in {0, MaxIterations}
MaxIndex == 4          \* directories g1 .. gMaxIndex
MaxCount == 2          \* configured directories per group up to MaxCount
MaxGroups == 2         \* configured groups 0 .. MaxGroups
MaxDetectors == 2      \* configured detectors 1 .. MaxDetectors
MaxPattern == 3        \* pattern numbers 1 .. MaxPattern of the input files
MaxWorkers == 2        \* ConversionWorker objects constructed in one session

----------------------------------------------------------------------------
(* float64 values as exact rationals, NaN included *)
NaN == <<0, 0>>
IsNaN(x) == x[2] = 0
Float(n) == <<n, 1>>
Zero == <<0, 1>>

Abs(a) == IF a < 0 THEN -a ELSE a

RECURSIVE GCD(_, _)
GCD(a, b) == IF b = 0 THEN a ELSE GCD(b, a % b)

LCM(a, b) == (a \div GCD(a, b)) * b

\* the rational n/d (d > 0) in lowest terms
Norm(n, d) == LET g == GCD(Abs(n), d) IN <<(Abs(n) \div g) * (IF n < 0 THEN -1 ELSE 1), d \div g>>

\* numerator of x over the denominator l (a multiple of x's denominator)
Over(x, l) == x[1] * (l \div x[2])

Add(x, y) ==
    IF IsNaN(x) \/ IsNaN(y) THEN NaN
    ELSE LET l == LCM(x[2], y[2]) IN Norm(Over(x, l) + Over(y, l), l)

Sub(x, y) ==
    IF IsNaN(x) \/ IsNaN(y) THEN NaN
    ELSE LET l == LCM(x[2], y[2]) IN Norm(Over(x, l) - Over(y, l), l)

Mul(x, y) ==
    IF IsNaN(x) \/ IsNaN(y) THEN NaN
    ELSE LET a == Norm(x[1], y[2])
             b == Norm(y[1], x[2])
         IN  <<a[1] * b[1], a[2] * b[2]>>

\* x / y as numpy divides: 0/0 and anything with NaN is NaN.  A non-zero x over
\* 0 (inf in numpy) does not arise: every divisor is a count or a length.
Div(x, y) ==
    IF IsNaN(x) \/ IsNaN(y) \/ y[1] = 0 THEN NaN
    ELSE IF y[1] > 0 THEN Mul(x, <<y[2], y[1]>>)
    ELSE Mul(x, <<-y[2], -y[1]>>)

\* x > y; every comparison with NaN is False
Gt(x, y) ==
    /\ ~IsNaN(x)
    /\ ~IsNaN(y)
    /\ LET l == LCM(x[2], y[2]) IN Over(x, l) > Over(y, l)

Maximum(x, y) == IF IsNaN(x) \/ IsNaN(y) THEN NaN ELSE IF Gt(y, x) THEN y ELSE x

RECURSIVE SumOver(_, _)
\* sum of f[k] over the finite set S
SumOver(f, S) ==
    IF S = {} THEN Zero
    ELSE LET k == CHOOSE x \in S : TRUE IN Add(f[k], SumOver(f, S \ {k}))

----------------------------------------------------------------------------
(* Arrays *)
PixelsOf(shape) == (0 .. shape[1] - 1) \X (0 .. shape[2] - 1)
\* f with every value computed, as an explicit table
Table(f) == f @@ <<>>
Array(shape, f) == [shape |-> shape, px |-> Table(f)]
NoArray == [shape |-> <<0, 0>>, px |-> [p \in {} |-> NaN]]

----------------------------------------------------------------------------
(* scipy.ndimage.uniform_filter as called by detect_cosmic_rays: default    *)
(* mode "reflect" (d c b a | a b c d | d c b a), origin 0                   *)

\* the index inside 0..n-1 that the extended index i reads under "reflect"
Reflect(i, n) == LET m == i % (2 * n) IN IF m < n THEN m ELSE 2 * n - 1 - m

\* pixel p moved by k along axis, reflected back into the array
Shifted(p, axis, k, shape) ==
    IF axis = 0 THEN <<Reflect(p[1] + k, shape[1]), p[2]>>
    ELSE <<p[1], Reflect(p[2] + k, shape[2])>>

\* the mean of the `size` samples i - size \div 2 .. i + (size - size \div 2 - 1) along axis
uniform_filter1d(input, size, axis) ==
    LET size1 == size \div 2
        size2 == size - size1 - 1
        line(p) == [k \in (-size1) .. size2 |-> input.px[Shifted(p, axis, k, input.shape)]]
    IN  Array(input.shape,
              [p \in PixelsOf(input.shape) |->
                  Div(SumOver(line(p), (-size1) .. size2), Float(size))])

\* (variant) the window taken along axis 1 only
uniform_filter_axis1_only(input, size) ==
    IF size > 1 THEN uniform_filter1d(input, size, 1) ELSE input

\* one 1-d pass per axis whose size exceeds 1, else a copy of the input
uniform_filter(input, size) ==
    IF size > 1 THEN uniform_filter1d(uniform_filter1d(input, size, 0), size, 1)
    ELSE input

----------------------------------------------------------------------------
(* detect_cosmic_rays *)

\* z_scores > sigma at a pixel of valid_mask, where
\* z_scores = diff / (local_std + 1e-10), diff = data - local_mean and
\* std2 = local_std ** 2 > 0.  The values of the model are rationals of small
\* height, so 1e-10 is below every non-zero gap between diff and sig * local_std
\* and only decides the case diff = sig * local_std.
z_score_exceeds(diff, std2, sig) ==
    LET diff2 == Mul(diff, diff)
        bound2 == Mul(Mul(Float(sig), Float(sig)), std2)
    IN  IF sig = 0 THEN Gt(diff, Zero)
        ELSE IF sig > 0 THEN Gt(diff, Zero) /\ Gt(diff2, bound2)
        ELSE ~Gt(Zero, diff) \/ ~Gt(diff2, bound2)

\* (variant) the factor 2 on the wrong side: 2 * data > local_mean
intensity_exceeds_half(v, mean) == Gt(Mul(Float(2), v), mean)

\* (variant) data > (10 * local_mean)
intensity_exceeds_tenfold(v, mean) == Gt(v, Mul(Float(10), mean))

\* (variant) data >= local_mean
intensity_reaches_mean(v, mean) == ~IsNaN(v) /\ ~IsNaN(mean) /\ ~Gt(mean, v)

\* data > (2 * local_mean) at one pixel
intensity_exceeds(v, mean) == Gt(v, Mul(Float(2), mean))

\* (variant) data >= min_intensity
at_least_min_intensity(v, min_int) == ~IsNaN(v) /\ ~Gt(Float(min_int), v)

\* data > min_intensity at one pixel
above_min_intensity(v, min_int) == Gt(v, Float(min_int))

detect_cosmic_rays(d, sig, win, min_int) ==
    LET P == PixelsOf(d.shape)
        positive_mask == [p \in P |-> Gt(d.px[p], Zero)]
        data_positive == Array(d.shape, [p \in P |-> IF positive_mask[p] THEN d.px[p] ELSE Zero])
        sum_positive == uniform_filter(data_positive, win)
        count_positive ==
            uniform_filter(Array(d.shape, [p \in P |-> IF positive_mask[p] THEN Float(1) ELSE Zero]), win)
        local_mean == [p \in P |->
            IF Gt(count_positive.px[p], Zero)
            THEN Div(sum_positive.px[p], count_positive.px[p]) ELSE Zero]
        sum_squares ==
            uniform_filter(Array(d.shape, [p \in P |-> Mul(data_positive.px[p], data_positive.px[p])]), win)
        local_var == [p \in P |->
            IF Gt(count_positive.px[p], Zero)
            THEN Sub(Div(sum_squares.px[p], count_positive.px[p]), Mul(local_mean[p], local_mean[p]))
            ELSE Zero]
        \* local_std = sqrt(maximum(local_var, 0)), kept as its square
        local_std2 == [p \in P |-> Maximum(local_var[p], Zero)]
        valid_mask == [p \in P |-> positive_mask[p] /\ Gt(local_std2[p], Zero)]
        \* z_scores > sigma; z_scores is 0 outside valid_mask
        z_above == [p \in P |->
            IF valid_mask[p]
            THEN z_score_exceeds(Sub(d.px[p], local_mean[p]), local_std2[p], sig)
            ELSE 0 > sig]
        cosmic_mask == [p \in P |-> z_above[p] /\ positive_mask[p]]
        intensity_mask == [p \in P |->
            intensity_exceeds(d.px[p], local_mean[p]) /\ positive_mask[p]]
    IN  [p \in P |->
            (cosmic_mask[p] \/ intensity_mask[p]) /\ above_min_intensity(d.px[p], min_int)]

----------------------------------------------------------------------------
(* Input images *)
Uniform(shape, v) == Array(shape, [p \in PixelsOf(shape) |-> v])
Inject(img, p, v) == Array(img.shape, [img.px EXCEPT ![p] = v])

Shapes == (1 .. MaxH) \X (1 .. MaxW)
BaseVals == {Float(0), Float(1)}
SpikeVals == {NaN, Float(-1), Float(3), Float(9)}

CornerVals == {NaN, Float(-1)}

\* a uniform image with pixel (0,0) and one more pixel possibly replaced,
\* and the uniform images of every value
ImagesOf(shape) ==
    { Inject(Inject(Uniform(shape, b), <<0, 0>>, c), p, v) :
        b \in BaseVals, c \in CornerVals \cup BaseVals,
        p \in PixelsOf(shape), v \in SpikeVals \cup BaseVals }
    \cup { Uniform(shape, b) : b \in BaseVals \cup SpikeVals }

Images == UNION { ImagesOf(shape) : shape \in Shapes }

\* the 5x5 image of value 10 with pixel (2,2) = 500
ScenarioA == Inject(Uniform(<<5, 5>>, Float(10)), <<2, 2>>, Float(500))

NoMask == [p \in {} |-> FALSE]

----------------------------------------------------------------------------
(* A call of detect_cosmic_rays *)
DetectOff ==
    /\ data = NoArray /\ sigma = 0 /\ window_size = 1 /\ min_intensity = 0
    /\ detect_pc = "off" /\ detect_mask = NoMask

CombineOff ==
    /\ directory = <<>> /\ cosmic_sigma = 0 /\ cosmic_window = 1
    /\ cosmic_iterations = 0 /\ cosmic_min = 0 /\ pc = "off"
    /\ imgs_data = <<>> /\ cosmic_masks = <<>>
    /\ cur_mask = NoMask /\ cosmic_counts = <<>> /\ raised = "none"
    /\ combined = NoArray

IterOff ==
    /\ it_fn = "off" /\ it_arg = NoArray /\ it_image = NoArray /\ it_shares = FALSE
    /\ it_sigma = <<>> /\ it_window = 1 /\ it_iterations = 0 /\ it_min = 0
    /\ it_round_masks = <<>> /\ combined_mask = NoMask /\ it_counts = <<>>
    /\ it_pc = "off" /\ it_raised = "none" /\ it_returned = NoArray

NoDirectory == [exists |-> FALSE, entries |-> <<>>]
NoGroups == [raised |-> "none", groups |-> <<>>, current_index |-> 0]

ArgsOff == input_directory = NoDirectory /\ config = <<>>

GroupsOff == start_idx = 0 /\ groups_pc = "off" /\ groups_returned = NoGroups

ProcessOff ==
    /\ start_index = 0 /\ end_index = 0 /\ callback = "None" /\ failing = {}
    /\ current_index = 0 /\ measurement_number = 0 /\ groups = <<>> /\ next_index = 0
    /\ group_i = 0 /\ directory_i = 0 /\ combined_data = <<>> /\ written = <<>>
    /\ events = <<>> /\ pm_pc = "off" /\ pm_raised = "none"

NoValue == [type |-> "None", items |-> <<>>]

IntegrateOff ==
    /\ input_files = {} /\ detectors = <<>> /\ config_files = <<>>
    /\ integrated_patterns = <<>> /\ xy_written = <<>>
    /\ im_pc = "off" /\ im_raised = "none" /\ im_returned = NoValue

\* the built-in print, bound to builtins.print when the program starts
builtin_print == [fn |-> "print", of |-> 0]

GuiOff ==
    /\ calls = "off" /\ gui_op = "none"
    /\ start_button = FALSE /\ stop_button = FALSE
    /\ worker = 0 /\ workers = <<>>
    /\ builtins_print = builtin_print /\ signals = <<>>

RestOff == IterOff /\ ArgsOff /\ GroupsOff /\ ProcessOff /\ IntegrateOff /\ GuiOff

DetectInit ==
    /\ \/ /\ data \in Images
          /\ sigma \in {0, MaxSigma}
          /\ window_size \in 1 .. MaxWindow
          /\ min_intensity \in {0, MaxMinIntensity}
       \/ /\ data = ScenarioA
          /\ sigma = 3
          /\ window_size = 3
          /\ min_intensity = 0
    /\ detect_pc = "idle"
    /\ detect_mask = NoMask
    /\ CombineOff
    /\ RestOff

DetectCosmicRays ==
    /\ detect_pc = "idle"
    /\ detect_mask' = detect_cosmic_rays(data, sigma, window_size, min_intensity)
    /\ detect_pc' = "returned"
    /\ UNCHANGED <<data, sigma, window_size, min_intensity, combine_vars, rest_vars>>

DetectNext == DetectCosmicRays

SpecDetect == DetectInit /\ [][DetectNext]_vars

----------------------------------------------------------------------------
(* numpy helpers used by combine_images_in_directory *)
\* the shapes broadcast together: per axis equal, or one of them 1
Broadcastable(s1, s2) == \A ax \in 1 .. 2 : s1[ax] = s2[ax] \/ s1[ax] = 1 \/ s2[ax] = 1
BroadcastShape(s1, s2) ==
    <<IF s1[1] = 1 THEN s2[1] ELSE s1[1], IF s1[2] = 1 THEN s2[2] ELSE s1[2]>>

\* the pixel of an array of `shape` that pixel p of a broadcast result reads
BroadcastIndex(shape, p) ==
    <<IF shape[1] = 1 THEN 0 ELSE p[1], IF shape[2] = 1 THEN 0 ELSE p[2]>>

\* (variant) np.mean: a NaN in any array makes the mean NaN
mean_axis0(arrs) ==
    Array(arrs[1].shape,
          [p \in PixelsOf(arrs[1].shape) |->
              Div(SumOver([j \in 1 .. Len(arrs) |-> arrs[j].px[p]], 1 .. Len(arrs)),
                  Float(Len(arrs)))])

\* np.nanmean(arrs, axis=0) of a non-empty sequence of same-shaped arrays:
\* the mean of the values that are not NaN, NaN where all are NaN
nanmean(arrs) ==
    LET shape == arrs[1].shape
        present(p) == { j \in 1 .. Len(arrs) : ~IsNaN(arrs[j].px[p]) }
    IN  Array(shape,
              [p \in PixelsOf(shape) |->
                  IF present(p) = {} THEN NaN
                  ELSE Div(SumOver([j \in present(p) |-> arrs[j].px[p]], present(p)),
                           Float(Cardinality(present(p))))])

\* np.where(condition, x, y) with broadcasting; condition is a mask of cshape
where(condition, cshape, x, y) ==
    LET shape == BroadcastShape(BroadcastShape(cshape, x.shape), y.shape)
    IN  Array(shape,
              [p \in PixelsOf(shape) |->
                  IF condition[BroadcastIndex(cshape, p)]
                  THEN x.px[BroadcastIndex(x.shape, p)]
                  ELSE y.px[BroadcastIndex(y.shape, p)]])

\* np.sum(arrs, axis=0) of a non-empty sequence of same-shaped arrays
sum_axis0(arrs) ==
    Array(arrs[1].shape,
          [p \in PixelsOf(arrs[1].shape) |->
              SumOver([j \in 1 .. Len(arrs) |-> arrs[j].px[p]], 1 .. Len(arrs))])

\* sequence without its i-th element
Others(seq, i) == [j \in 1 .. Len(seq) - 1 |-> IF j < i THEN seq[j] ELSE seq[j + 1]]

----------------------------------------------------------------------------
(* The directory *)
Lower(ext) ==
    CASE ext = ".TIF" -> ".tif"
      [] ext = ".TIFF" -> ".tiff"
      [] OTHER -> ext

\* (variant) every entry of the directory, whatever its extension
get_all_filenames(directory_path) == directory_path

\* the entries kept by get_tiff_filenames, in listing order
get_tiff_filenames(directory_path) ==
    SelectSeq(directory_path, LAMBDA f : Lower(f.ext) \in {".tif", ".tiff"})

Row3(a, b, c) == Array(<<1, 3>>, (<<0, 0>> :> Float(a)) @@ (<<0, 1>> :> Float(b)) @@ (<<0, 2>> :> Float(c)))

Files ==
    { [ext |-> ".tif", data |-> Row3(1, 9, 1)],
      [ext |-> ".tif", data |-> Row3(1, 1, 1)],
      [ext |-> ".tiff", data |-> Row3(2, 2, 2)],
      [ext |-> ".TIFF", data |-> Inject(Uniform(<<2, 3>>, Float(1)), <<0, 1>>, Float(9))],
      [ext |-> ".TIF", data |-> Uniform(<<1, 2>>, Float(1))],
      [ext |-> ".txt", data |-> NoArray] }

Directories == UNION { [1 .. n -> Files] : n \in 0 .. MaxImages }

----------------------------------------------------------------------------
(* combine_images_in_directory *)
ZerosLike(img) == [p \in PixelsOf(img.shape) |-> FALSE]

\* a mask update that keeps the latest round only
logical_or_latest(mask1, mask2) == mask2

\* np.logical_or of two masks of one shape
logical_or(mask1, mask2) == [p \in DOMAIN mask1 |-> mask1[p] \/ mask2[p]]

CombineInit ==
    /\ directory \in Directories
    /\ cosmic_sigma = MaxSigma
    /\ cosmic_window \in {MaxWindow - 1, MaxWindow}
    /\ cosmic_iterations \in {0, MaxIterations}
    /\ cosmic_min = 0
    /\ pc = "start"
    /\ imgs_data = <<>> /\ cosmic_masks = <<>>
    /\ cur_mask = NoMask /\ cosmic_counts = <<>> /\ raised = "none"
    /\ combined = NoArray
    /\ DetectOff
    /\ RestOff

\* lines 65-67: no .tif/.tiff file in the directory
RaiseFileNotFound ==
    /\ pc = "start"
    /\ get_tiff_filenames(directory) = <<>>
    /\ pc' = "raised"
    /\ raised' = "FileNotFoundError"
    /\ UNCHANGED <<directory, cosmic_sigma, cosmic_window, cosmic_iterations, cosmic_min,
                   imgs_data, cosmic_masks, cur_mask, cosmic_counts, combined, detect_vars, rest_vars>>

\* lines 69-76: open every file, take its data as float64, enter get_cosmic_mask
\* for the first image
OpenImages ==
    /\ pc = "start"
    /\ LET filenames == get_tiff_filenames(directory)
       IN  /\ filenames # <<>>
           /\ imgs_data' = [i \in 1 .. Len(filenames) |-> filenames[i].data]
           /\ cur_mask' = ZerosLike(filenames[1].data)
    /\ cosmic_counts' = <<>>
    /\ pc' = "get_cosmic_mask"
    /\ UNCHANGED <<directory, cosmic_sigma, cosmic_window, cosmic_iterations, cosmic_min,
                   cosmic_masks, raised, combined, detect_vars, rest_vars>>

\* lines 78-84: one pass of the loop of get_cosmic_mask on image Len(cosmic_masks) + 1
GetCosmicMaskRound ==
    /\ pc = "get_cosmic_mask"
    /\ Len(cosmic_counts) < cosmic_iterations
    /\ \E cosmic_mask \in {Table(detect_cosmic_rays(imgs_data[Len(cosmic_masks) + 1],
                                                     cosmic_sigma, cosmic_window, cosmic_min))} :
       LET i == Len(cosmic_masks) + 1
           img_data == imgs_data[i]
           P == PixelsOf(img_data.shape)
       IN  /\ imgs_data' = [imgs_data EXCEPT ![i] =
                  Array(img_data.shape, [p \in P |-> IF cosmic_mask[p] THEN NaN ELSE img_data.px[p]])]
           /\ cur_mask' = logical_or(cur_mask, cosmic_mask)
           /\ cosmic_counts' = Append(cosmic_counts, Cardinality({p \in P : cosmic_mask[p]}))
    /\ UNCHANGED <<directory, cosmic_sigma, cosmic_window, cosmic_iterations, cosmic_min,
                   pc, cosmic_masks, raised, combined, detect_vars, rest_vars>>

\* lines 85-88: get_cosmic_mask returns combined_mask; the comprehension goes on
\* to the next image or ends
GetCosmicMaskReturn ==
    /\ pc = "get_cosmic_mask"
    /\ Len(cosmic_counts) = cosmic_iterations
    /\ cosmic_masks' = Append(cosmic_masks, cur_mask)
    /\ cosmic_counts' = <<>>
    /\ IF Len(cosmic_masks) + 1 < Len(imgs_data)
       THEN /\ cur_mask' = ZerosLike(imgs_data[Len(cosmic_masks) + 2])
            /\ pc' = pc
       ELSE /\ cur_mask' = NoMask
            /\ pc' = "replace"
    /\ UNCHANGED <<directory, cosmic_sigma, cosmic_window, cosmic_iterations, cosmic_min,
                   imgs_data, raised, combined, detect_vars, rest_vars>>

\* lines 91-93
imgs_data_nan(masks, imgs) ==
    [i \in 1 .. Len(imgs) |->
        Array(imgs[i].shape,
              [p \in PixelsOf(imgs[i].shape) |-> IF masks[i][p] THEN NaN ELSE imgs[i].px[p]])]

SameShapes(arrs) == \A i, j \in 1 .. Len(arrs) : arrs[i].shape = arrs[j].shape

\* numpy raises ValueError in lines 96-111: np.nanmean of arrays of different
\* shapes, np.where of shapes that do not broadcast
ReplaceRaises(masks, imgs) ==
    \E i \in 1 .. Len(imgs) :
        /\ Len(imgs) > 1
        /\ \/ ~SameShapes(Others(imgs, i))
           \/ ~Broadcastable(imgs[i].shape, Others(imgs, i)[1].shape)

\* lines 96-109: the corrected image i
Replaced(masks, imgs, i) ==
    where(masks[i], imgs[i].shape,
          IF Len(imgs) > 1 THEN nanmean(Others(imgs_data_nan(masks, imgs), i)) ELSE imgs[i],
          imgs[i])

\* lines 90-111
ReplaceAndSum ==
    /\ pc = "replace"
    /\ IF ReplaceRaises(cosmic_masks, imgs_data)
       THEN /\ pc' = "raised"
            /\ raised' = "ValueError"
            /\ UNCHANGED <<imgs_data, combined>>
       ELSE /\ imgs_data' = [i \in 1 .. Len(imgs_data) |-> Replaced(cosmic_masks, imgs_data, i)]
            /\ IF SameShapes(imgs_data')
               THEN /\ combined' = sum_axis0(imgs_data')
                    /\ pc' = "returned"
                    /\ UNCHANGED raised
               ELSE /\ pc' = "raised"
                    /\ raised' = "ValueError"
                    /\ UNCHANGED combined
    /\ UNCHANGED <<directory, cosmic_sigma, cosmic_window, cosmic_iterations, cosmic_min,
                   cosmic_masks, cur_mask, cosmic_counts, detect_vars, rest_vars>>

CombineNext ==
    \/ RaiseFileNotFound
    \/ OpenImages
    \/ GetCosmicMaskRound
    \/ GetCosmicMaskReturn
    \/ ReplaceAndSum

SpecCombine == CombineInit /\ [][CombineNext]_vars

----------------------------------------------------------------------------
(* The iterative removers: apply_threshold (src/cosmic.py) and              *)
(* detect_cosmic_rays_multiple_iterations (el_ltp_tools/util/cosmic.py)     *)

None == <<>>
Some(x) == <<x>>

\* ndarray.astype(copy=False) on a float64 array: the same buffer, no copy
astype_view(arr) ==
    [array |-> Array(arr.shape, [p \in PixelsOf(arr.shape) |-> arr.px[p]]), shares |-> TRUE]

\* ndarray.astype(np.float64): a new array holding the same values
astype(arr) ==
    [array |-> Array(arr.shape, [p \in PixelsOf(arr.shape) |-> arr.px[p]]), shares |-> FALSE]

\* range(n + 1)
range_inclusive(n) == 0 .. n

\* range(n)
range(n) == 0 .. n - 1

\* the images of the detector's family, and the row 1 3 9 whose 3 is flagged only
\* once the 9 has been removed
IterImages ==
    { img \in Images : img.shape[1] = 1 \/ img.shape[2] = MaxW } \cup {Row3(1, 3, 9)}

IterInit ==
    /\ it_fn \in {"apply_threshold", "detect_cosmic_rays_multiple_iterations"}
    /\ it_arg \in IterImages
    /\ it_image = NoArray
    /\ it_shares = FALSE
    /\ it_sigma \in {None, Some(0), Some(MaxSigma)}
    /\ it_window \in {MaxWindow - 1, MaxWindow}
    /\ it_iterations \in {0, MaxIterations}
    /\ it_min = 0
    /\ it_round_masks = <<>> /\ combined_mask = NoMask /\ it_counts = <<>>
    /\ it_pc = "called" /\ it_raised = "none" /\ it_returned = NoArray
    /\ DetectOff
    /\ CombineOff
    /\ ArgsOff
    /\ GroupsOff
    /\ ProcessOff
    /\ IntegrateOff
    /\ GuiOff

\* apply_threshold lines 55, 76: sigma is None, the argument itself is returned
ApplyThresholdSkip ==
    /\ it_pc = "called"
    /\ it_fn = "apply_threshold"
    /\ it_sigma = None
    /\ it_returned' = it_arg
    /\ it_pc' = "returned"
    /\ UNCHANGED <<it_fn, it_arg, it_image, it_shares, it_sigma, it_window, it_iterations,
                   it_min, it_round_masks, combined_mask, it_counts, it_raised,
                   iter_frame>>

\* apply_threshold lines 57-60
ApplyThresholdConvert ==
    /\ it_pc = "called"
    /\ it_fn = "apply_threshold"
    /\ it_sigma # None
    /\ it_image' = astype(it_arg).array
    /\ it_shares' = astype(it_arg).shares
    /\ it_counts' = <<>>
    /\ it_pc' = "loop"
    /\ UNCHANGED <<it_fn, it_arg, it_sigma, it_window, it_iterations, it_min,
                   it_round_masks, combined_mask, it_raised, it_returned,
                   iter_frame>>

\* detect_cosmic_rays_multiple_iterations lines 117-123
MultipleIterationsConvert ==
    /\ it_pc = "called"
    /\ it_fn = "detect_cosmic_rays_multiple_iterations"
    /\ it_image' = astype(it_arg).array
    /\ it_shares' = astype(it_arg).shares
    /\ it_counts' = <<>>
    /\ combined_mask' = ZerosLike(it_arg)
    /\ it_pc' = "loop"
    /\ UNCHANGED <<it_fn, it_arg, it_sigma, it_window, it_iterations, it_min,
                   it_round_masks, it_raised, it_returned, iter_frame>>

\* an assignment of NaN that also doubles the pixels it keeps
set_nan_and_rescale(image, mask) ==
    Array(image.shape,
          [p \in PixelsOf(image.shape) |-> IF mask[p] THEN NaN ELSE Mul(Float(2), image.px[p])])

\* image[cosmic_mask] = np.nan
set_nan(image, mask) ==
    Array(image.shape, [p \in PixelsOf(image.shape) |-> IF mask[p] THEN NaN ELSE image.px[p]])

\* one pass of the loop: apply_threshold lines 63-71,
\* detect_cosmic_rays_multiple_iterations lines 126-135
IterRound ==
    /\ it_pc = "loop"
    /\ Len(it_counts) \in range(it_iterations)
    /\ it_sigma # None
    /\ \E cosmic_mask \in {Table(detect_cosmic_rays(it_image, it_sigma[1], it_window, it_min))} :
       LET P == PixelsOf(it_image.shape)
           nan_set == set_nan(it_image, cosmic_mask)
       IN  /\ it_image' = nan_set
           /\ it_arg' = IF it_shares THEN nan_set ELSE it_arg
           /\ combined_mask' = IF it_fn = "apply_threshold" THEN combined_mask
                               ELSE logical_or(combined_mask, cosmic_mask)
           /\ it_counts' = Append(it_counts, Cardinality({p \in P : cosmic_mask[p]}))
           /\ it_round_masks' = Append(it_round_masks, cosmic_mask)
    /\ UNCHANGED <<it_fn, it_shares, it_sigma, it_window, it_iterations, it_min, it_pc,
                   it_raised, it_returned, iter_frame>>

\* the first pass with sigma None: `z_scores > sigma` (detect_cosmic_rays line 68)
\* compares an array with None and raises TypeError
IterRoundRaises ==
    /\ it_pc = "loop"
    /\ Len(it_counts) \in range(it_iterations)
    /\ it_sigma = None
    /\ it_pc' = "raised"
    /\ it_raised' = "TypeError"
    /\ UNCHANGED <<it_fn, it_arg, it_image, it_shares, it_sigma, it_window, it_iterations,
                   it_min, it_round_masks, combined_mask, it_counts, it_returned,
                   iter_frame>>

\* the loop is over: apply_threshold line 76 returns the working array,
\* detect_cosmic_rays_multiple_iterations line 140 returns combined_mask
IterReturn ==
    /\ it_pc = "loop"
    /\ Len(it_counts) \notin range(it_iterations)
    /\ it_returned' = IF it_fn = "apply_threshold" THEN it_image
                      ELSE [shape |-> it_image.shape, px |-> combined_mask]
    /\ it_pc' = "returned"
    /\ UNCHANGED <<it_fn, it_arg, it_image, it_shares, it_sigma, it_window, it_iterations,
                   it_min, it_round_masks, combined_mask, it_counts, it_raised,
                   iter_frame>>

IterNext ==
    \/ ApplyThresholdSkip
    \/ ApplyThresholdConvert
    \/ MultipleIterationsConvert
    \/ IterRound
    \/ IterRoundRaises
    \/ IterReturn

SpecIter == IterInit /\ [][IterNext]_vars

----------------------------------------------------------------------------
(* get_directory_groups (el_ltp_tools/image_combine/__init__.py)            *)

\* An entry of the input directory is named "g<number><suffix>" or has a name
\* the pattern does not match; isdir tells a directory from a plain file.
DirEntry(stem, number, suffix, isdir) ==
    [stem |-> stem, number |-> number, suffix |-> suffix, isdir |-> isdir]

\* lines 145, 160-163: re.compile(r"g(\d+)").match(name) and int(match.group(1))
pattern_match(name) == IF name.stem = "g" THEN Some(name.number) ELSE None

\* a configured count: an integer, or a value of another type
IntVal(n) == [type |-> "int", value |-> n]
StrVal == [type |-> "str", value |-> 0]

\* lines 158-167: the first entry of os.listdir, directory or not, that the
\* pattern matches with this index
first_match(directory_names, index) ==
    LET matching_directories ==
            SelectSeq(directory_names, LAMBDA d : pattern_match(d) = Some(index))
    IN  IF matching_directories = <<>> THEN <<>> ELSE <<matching_directories[1]>>

\* the matching directories of the index range taken in os.listdir order
directories_in_listing_order(directory_names, index, num_directories) ==
    SelectSeq(directory_names,
              LAMBDA d : /\ pattern_match(d) # None
                         /\ pattern_match(d)[1] - index \in range(num_directories))

\* a loop that looks at the start index even when num_directories is below 1
\* and does not count that pass
directories_from_at_least_one(directory_names, index, num_directories) ==
    LET passes == IF num_directories >= 1 THEN num_directories ELSE 1
        indices == SelectSeq([i \in 1 .. passes |-> index + i - 1],
                             LAMBDA j : first_match(directory_names, j) # <<>>)
    IN  [i \in 1 .. Len(indices) |-> first_match(directory_names, indices[i])[1]]

\* lines 156-174: `for _ in range(num_directories)`, one index per pass, the
\* match of each index appended in that order
directories_from(directory_names, index, num_directories) ==
    LET indices == SelectSeq([i \in 1 .. num_directories |-> index + i - 1],
                             LAMBDA j : first_match(directory_names, j) # <<>>)
    IN  [i \in 1 .. Len(indices) |-> first_match(directory_names, indices[i])[1]]

\* lines 152-180: the loop over group_configs.items() from item k on
RECURSIVE group_loop(_, _, _, _, _)
group_loop(items, k, index, found, input_dir) ==
    IF k > Len(items)
    THEN [raised |-> "none", groups |-> found, current_index |-> index]
    ELSE LET group_name == items[k].name
             num_directories == items[k].count
         IN  IF num_directories.type # "int"
             THEN [raised |-> "TypeError", groups |-> <<>>, current_index |-> index]
             ELSE IF num_directories.value >= 1 /\ ~input_dir.exists
             THEN [raised |-> "FileNotFoundError", groups |-> <<>>, current_index |-> index]
             ELSE LET n == num_directories.value
                      directories == directories_from(input_dir.entries, index, n)
                  IN  group_loop(items, k + 1, index + Cardinality(range(n)),
                                 IF directories # <<>>
                                 THEN Append(found, [name |-> group_name,
                                                      directories |-> directories])
                                 ELSE found,
                                 input_dir)

\* lines 143-182
get_directory_groups(start, cfg, input_dir) ==
    IF cfg = <<>>
    THEN [raised |-> "IndexError", groups |-> <<>>, current_index |-> start]
    ELSE group_loop(cfg[1], 1, start, <<>>, input_dir)

\* Inputs of get_directory_groups
GroupNames == <<"center", "side", "far">>
Counts == {IntVal(-1), IntVal(0), IntVal(MaxCount - 1), IntVal(MaxCount), StrVal}
Dicts == UNION { [1 .. n -> Counts] : n \in 0 .. MaxGroups }
Items(counts) == [k \in 1 .. Len(counts) |-> [name |-> GroupNames[k], count |-> counts[k]]]
Configs == {<<>>} \cup { <<Items(counts)>> : counts \in Dicts }

\* the directories g1 .. gMaxIndex that exist, with or without other entries,
\* listed in increasing or in decreasing order
Subdirs(S) == { DirEntry("g", k, "", TRUE) : k \in S }
ExtraEntries ==
    { {},
      {DirEntry("g", 2, "_old", TRUE)},
      {DirEntry("g", 1, ".txt", FALSE), DirEntry("output", 0, "", TRUE)} }
EntryKey(e) == 4 * e.number + (IF e.suffix = "" THEN 0 ELSE IF e.suffix = "_old" THEN 1 ELSE 2)
                 + (IF e.stem = "g" THEN 0 ELSE 3)
RECURSIVE Ascending(_)
Ascending(S) ==
    IF S = {} THEN <<>>
    ELSE LET e == CHOOSE x \in S : \A y \in S : EntryKey(x) <= EntryKey(y)
         IN  <<e>> \o Ascending(S \ {e})
Reverse(seq) == [i \in 1 .. Len(seq) |-> seq[Len(seq) + 1 - i]]
Listings ==
    UNION { { Ascending(Subdirs(S) \cup X), Reverse(Ascending(Subdirs(S) \cup X)) } :
            <<S, X>> \in (SUBSET (1 .. MaxIndex)) \X ExtraEntries }
InputDirectories == {NoDirectory} \cup { [exists |-> TRUE, entries |-> l] : l \in Listings }

GroupsInit ==
    /\ input_directory \in InputDirectories
    /\ config \in Configs
    /\ start_idx \in 1 .. 2
    /\ groups_pc = "called"
    /\ groups_returned = NoGroups
    /\ DetectOff
    /\ CombineOff
    /\ IterOff
    /\ ProcessOff
    /\ IntegrateOff
    /\ GuiOff

GetDirectoryGroupsReturns ==
    /\ groups_pc = "called"
    /\ \E result \in {get_directory_groups(start_idx, config, input_directory)} :
          /\ result.raised = "none"
          /\ groups_returned' = result
    /\ groups_pc' = "returned"
    /\ UNCHANGED <<start_idx, args_vars, groups_frame>>

GetDirectoryGroupsRaises ==
    /\ groups_pc = "called"
    /\ \E result \in {get_directory_groups(start_idx, config, input_directory)} :
          /\ result.raised # "none"
          /\ groups_returned' = result
    /\ groups_pc' = "raised"
    /\ UNCHANGED <<start_idx, args_vars, groups_frame>>

GroupsNext ==
    \/ GetDirectoryGroupsReturns
    \/ GetDirectoryGroupsRaises

SpecGroups == GroupsInit /\ [][GroupsNext]_vars

----------------------------------------------------------------------------
(* process_measurements (el_ltp_tools/image_combine/__init__.py).  The file *)
(* system grants every permission and json.loads succeeds: `config` is the  *)
(* parsed configuration.  combine_images_in_directory is taken by its       *)
(* outcome: it raises on the entries in `failing` and on plain files, and   *)
(* returns an array otherwise; a sum of arrays is the sequence of the       *)
(* directories it was built from.                                           *)

prefix == "test"

RECURSIVE Digits(_)
Digits(n) == IF n < 10 THEN <<n>> ELSE Digits(n \div 10) \o <<n % 10>>

\* f"{n}": the decimal digits without padding
format_d(n) == Digits(n)

\* f"{n:04d}": the decimal digits, zero-padded on the left to at least 4
format_04d(n) == [i \in 1 .. 4 - Len(Digits(n)) |-> 0] \o Digits(n)

\* line 311-314
output_filename(group_name, number) ==
    [prefix |-> prefix, group |-> group_name, number |-> format_04d(number), ext |-> ".tif"]

\* lines 287-308: combine_images_in_directory raises inside the try
combine_raises(d) == ~d.isdir \/ d \in failing

\* no invocation of the callback
Unconsulted == <<>>

\* the result of `callback and not callback()` being false: the invocation, if any
Consulted == IF callback = "callable" THEN <<"callback">> ELSE <<>>

ProcessCounts == {IntVal(-1), IntVal(1), IntVal(MaxCount)}
ProcessConfigs ==
    {<<>>, <<Items(<<StrVal>>)>>, <<Items(<<IntVal(0)>>)>>}
        \cup { <<Items(counts)>> : counts \in UNION { [1 .. n -> ProcessCounts] : n \in 0 .. MaxGroups } }

\* g1 .. gMaxIndex with at most one of them missing, or none of them, with or
\* without a plain file g1.txt and a directory output
ProcessDirectories ==
    {NoDirectory} \cup
    { [exists |-> TRUE, entries |-> Ascending(Subdirs(S) \cup X)] :
        <<S, X>> \in ({{}} \cup { (1 .. MaxIndex) \ {k} : k \in 0 .. MaxIndex })
                     \X {{}, {DirEntry("g", 1, ".txt", FALSE), DirEntry("output", 0, "", TRUE)}} }

ProcessInit ==
    /\ input_directory \in ProcessDirectories
    /\ config \in ProcessConfigs
    /\ start_index \in 1 .. 2
    /\ end_index \in {start_index, MaxIndex}
    /\ callback \in {"None", "callable"}
    /\ failing \in {{}, {DirEntry("g", 2, "", TRUE)}}
    /\ current_index = 0 /\ measurement_number = 0 /\ groups = <<>> /\ next_index = 0
    /\ group_i = 0 /\ directory_i = 0 /\ combined_data = None /\ written = <<>>
    /\ events = <<>> /\ pm_pc = "called" /\ pm_raised = "none"
    /\ DetectOff
    /\ CombineOff
    /\ IterOff
    /\ GroupsOff
    /\ IntegrateOff
    /\ GuiOff

\* lines 229-230
InputDirectoryMissing ==
    /\ pm_pc = "called"
    /\ ~input_directory.exists
    /\ pm_pc' = "raised"
    /\ pm_raised' = "FileNotFoundError"
    /\ UNCHANGED <<start_index, end_index, callback, failing, current_index,
                   measurement_number, groups, next_index, group_i, directory_i,
                   combined_data, written, events, args_vars, process_frame>>

\* lines 229-253
EnterLoop ==
    /\ pm_pc = "called"
    /\ input_directory.exists
    /\ current_index' = start_index
    /\ measurement_number' = 1
    /\ pm_pc' = "while"
    /\ UNCHANGED <<start_index, end_index, callback, failing, groups, next_index, group_i,
                   directory_i, combined_data, written, events, pm_raised,
                   args_vars, process_frame>>

\* line 255: the loop condition is false, the function returns None
LoopEnds ==
    /\ pm_pc = "while"
    /\ ~(current_index <= end_index)
    /\ pm_pc' = "returned"
    /\ UNCHANGED <<start_index, end_index, callback, failing, current_index,
                   measurement_number, groups, next_index, group_i, directory_i,
                   combined_data, written, events, pm_raised, args_vars, process_frame>>

\* lines 256-257: the callback returns False before a measurement
StopBeforeMeasurement ==
    /\ pm_pc = "while"
    /\ current_index <= end_index
    /\ callback = "callable"
    /\ events' = Append(events, "callback_false")
    /\ pm_pc' = "returned"
    /\ UNCHANGED <<start_index, end_index, callback, failing, current_index,
                   measurement_number, groups, next_index, group_i, directory_i,
                   combined_data, written, pm_raised, args_vars, process_frame>>

\* lines 256-269: get_directory_groups raises, or finds no group
MeasurementRaises ==
    /\ pm_pc = "while"
    /\ current_index <= end_index
    /\ \E result \in {get_directory_groups(current_index, config, input_directory)} :
          /\ result.raised # "none" \/ result.groups = <<>>
          /\ pm_raised' = IF result.raised # "none" THEN result.raised ELSE "ValueError"
    /\ events' = events \o Consulted \o <<"measurement">>
    /\ pm_pc' = "raised"
    /\ UNCHANGED <<start_index, end_index, callback, failing, current_index,
                   measurement_number, groups, next_index, group_i, directory_i,
                   combined_data, written, args_vars, process_frame>>

\* lines 256-271: get_directory_groups returns at least one group
MeasurementStarts ==
    /\ pm_pc = "while"
    /\ current_index <= end_index
    /\ \E result \in {get_directory_groups(current_index, config, input_directory)} :
          /\ result.raised = "none" /\ result.groups # <<>>
          /\ groups' = result.groups
          /\ next_index' = result.current_index
    /\ group_i' = 1
    /\ events' = events \o Consulted \o <<"measurement">>
    /\ pm_pc' = "group"
    /\ UNCHANGED <<start_index, end_index, callback, failing, current_index,
                   measurement_number, directory_i, combined_data, written, pm_raised,
                   args_vars, process_frame>>

\* lines 272-273: the callback returns False before a group
StopBeforeGroup ==
    /\ pm_pc = "group"
    /\ group_i <= Len(groups)
    /\ callback = "callable"
    /\ events' = Append(events, "callback_false")
    /\ pm_pc' = "returned"
    /\ UNCHANGED <<start_index, end_index, callback, failing, current_index,
                   measurement_number, groups, next_index, group_i, directory_i,
                   combined_data, written, pm_raised, args_vars, process_frame>>

\* lines 272-278
GroupStarts ==
    /\ pm_pc = "group"
    /\ group_i <= Len(groups)
    /\ combined_data' = None
    /\ directory_i' = 1
    /\ events' = events \o Consulted \o <<"group">>
    /\ pm_pc' = "directory"
    /\ UNCHANGED <<start_index, end_index, callback, failing, current_index,
                   measurement_number, groups, next_index, group_i, written, pm_raised,
                   args_vars, process_frame>>

\* lines 318-319: every group of the measurement is done
MeasurementEnds ==
    /\ pm_pc = "group"
    /\ group_i > Len(groups)
    /\ current_index' = next_index
    /\ measurement_number' = measurement_number + 1
    /\ pm_pc' = "while"
    /\ UNCHANGED <<start_index, end_index, callback, failing, groups, next_index, group_i,
                   directory_i, combined_data, written, events, pm_raised,
                   args_vars, process_frame>>

\* lines 279-280: the callback returns False before a directory
StopBeforeDirectory ==
    /\ pm_pc = "directory"
    /\ directory_i <= Len(groups[group_i].directories)
    /\ callback = "callable"
    /\ events' = Append(events, "callback_false")
    /\ pm_pc' = "returned"
    /\ UNCHANGED <<start_index, end_index, callback, failing, current_index,
                   measurement_number, groups, next_index, group_i, directory_i,
                   combined_data, written, pm_raised, args_vars, process_frame>>

\* lines 279-304: combine_images_in_directory returns; its array starts the sum
\* or is added to it
DirectoryCombined ==
    /\ pm_pc = "directory"
    /\ directory_i <= Len(groups[group_i].directories)
    /\ LET directory_name == groups[group_i].directories[directory_i]
       IN  /\ ~combine_raises(directory_name)
           /\ combined_data' = IF combined_data = None THEN Some(<<directory_name>>)
                               ELSE Some(Append(combined_data[1], directory_name))
    /\ directory_i' = directory_i + 1
    /\ events' = events \o Consulted \o <<"combine">>
    /\ UNCHANGED <<start_index, end_index, callback, failing, current_index,
                   measurement_number, groups, next_index, group_i, written, pm_pc,
                   pm_raised, args_vars, process_frame>>

\* lines 279-308: combine_images_in_directory raises; `except Exception` prints
\* the error and continues with the next directory
DirectoryFails ==
    /\ pm_pc = "directory"
    /\ directory_i <= Len(groups[group_i].directories)
    /\ combine_raises(groups[group_i].directories[directory_i])
    /\ directory_i' = directory_i + 1
    /\ events' = events \o Consulted \o <<"combine_failed">>
    /\ UNCHANGED <<start_index, end_index, callback, failing, current_index,
                   measurement_number, groups, next_index, group_i, combined_data,
                   written, pm_pc, pm_raised, args_vars, process_frame>>

\* lines 310-316: the directories of the group are done
GroupEnds ==
    /\ pm_pc = "directory"
    /\ directory_i > Len(groups[group_i].directories)
    /\ IF combined_data # None
       THEN /\ written' = Append(written,
                                 [name |-> output_filename(groups[group_i].name, measurement_number),
                                  data |-> combined_data[1],
                                  measurement |-> measurement_number,
                                  group |-> groups[group_i]])
            /\ events' = Append(events, "save")
       ELSE UNCHANGED <<written, events>>
    /\ group_i' = group_i + 1
    /\ pm_pc' = "group"
    /\ UNCHANGED <<start_index, end_index, callback, failing, current_index,
                   measurement_number, groups, next_index, directory_i, combined_data,
                   pm_raised, args_vars, process_frame>>

ProcessNext ==
    \/ InputDirectoryMissing
    \/ EnterLoop
    \/ LoopEnds
    \/ StopBeforeMeasurement
    \/ MeasurementRaises
    \/ MeasurementStarts
    \/ StopBeforeGroup
    \/ GroupStarts
    \/ MeasurementEnds
    \/ StopBeforeDirectory
    \/ DirectoryCombined
    \/ DirectoryFails
    \/ GroupEnds

SpecProcess == ProcessInit /\ [][ProcessNext]_vars

\* process_measurements is sequential code: a statement that can run does run
FairSpecProcess == SpecProcess /\ WF_vars(ProcessNext)

----------------------------------------------------------------------------
(* integrate_multi (el_ltp_tools/diffraction/__init__.py).  The calibration *)
(* and mask files of every detector load, and pyFAI integrates every set of *)
(* images; a pattern is recorded by the files it was integrated from.       *)

\* an input image <file_prefix>_<detector>_<number>.tif
TifFile(file_prefix, detector, number) ==
    [prefix |-> file_prefix, detector |-> detector, number |-> number, ext |-> ".tif"]

\* lines 40-41: glob of f"{base_path}/*{keyword}*.tif"
glob(files, keyword) == { f \in files : f.detector = keyword /\ f.ext = ".tif" }

\* lines 44-46: the number before ".tif"
get_index(filename) == filename.number

\* line 48: sorted(files, key=get_index)
RECURSIVE sorted(_)
sorted(files) ==
    IF files = {} THEN <<>>
    ELSE LET f == CHOOSE f \in files : \A g \in files : get_index(f) <= get_index(g)
         IN  <<f>> \o sorted(files \ {f})

\* lines 25-48
get_sorted_files(files, keyword) == sorted(glob(files, keyword))

\* line 114: re.sub(r'_[^_]+_\d+\.tif$', '', first_file)
base_name(first_file) == first_file.prefix

\* line 126: f"{base_name}_{i+1:04d}.xy", i counted from 0
xy_filename(first_file, i) ==
    [prefix |-> base_name(first_file), number |-> format_04d(i + 1), ext |-> ".xy"]

\* Python values as the caller sees them
List(items) == [type |-> "list", items |-> items]

\* line 139: `return integrated_patterns`
return_value(patterns) == List(patterns)

DetectorNames == <<"detector1", "detector2", "detector3">>
FilePrefix == "CaSiO3_2"

\* every detector has any subset of the pattern numbers 1 .. MaxPattern
InputFileSets(n) ==
    { UNION { { TifFile(FilePrefix, DetectorNames[k], number) : number \in numbers[k] } :
              k \in 1 .. n } :
      numbers \in [1 .. n -> SUBSET (1 .. MaxPattern)] }

IntegrateInit ==
    /\ \E n \in 1 .. MaxDetectors :
          /\ detectors = SubSeq(DetectorNames, 1, n)
          /\ input_files \in InputFileSets(n)
    /\ config_files = <<>>
    /\ integrated_patterns = <<>> /\ xy_written = <<>>
    /\ im_pc = "called" /\ im_raised = "none" /\ im_returned = NoValue
    /\ DetectOff
    /\ CombineOff
    /\ IterOff
    /\ ArgsOff
    /\ GroupsOff
    /\ ProcessOff
    /\ GuiOff

\* lines 88-91: the sorted files of every configuration
ConfigFiles == [k \in 1 .. Len(detectors) |-> get_sorted_files(input_files, detectors[k])]

\* line 94: any(config_files.values()), a list being true when it is not empty
any(values) == \E k \in 1 .. Len(values) : values[k] # <<>>

\* a test of the numbers of files that accepts everything
all_lengths_accepted(values) == TRUE

\* lines 98-99: all(len(files) == num_files ...), num_files the length of the first
all_lengths_match(values) == \A k \in 1 .. Len(values) : Len(values[k]) = Len(values[1])

\* lines 78-95: no configuration has a file
NoFilesFound ==
    /\ im_pc = "called"
    /\ ~any(ConfigFiles)
    /\ config_files' = ConfigFiles
    /\ im_pc' = "raised"
    /\ im_raised' = "ValueError"
    /\ UNCHANGED <<input_files, detectors, integrated_patterns, xy_written, im_returned,
                   integrate_frame>>

\* lines 78-100: the configurations differ in their number of files
NumbersDontMatch ==
    /\ im_pc = "called"
    /\ any(ConfigFiles)
    /\ ~all_lengths_match(ConfigFiles)
    /\ config_files' = ConfigFiles
    /\ im_pc' = "raised"
    /\ im_raised' = "ValueError"
    /\ UNCHANGED <<input_files, detectors, integrated_patterns, xy_written, im_returned,
                   integrate_frame>>

\* lines 78-102: the checks pass
StartIntegration ==
    /\ im_pc = "called"
    /\ any(ConfigFiles)
    /\ all_lengths_match(ConfigFiles)
    /\ config_files' = ConfigFiles
    /\ integrated_patterns' = <<>>
    /\ im_pc' = "loop"
    /\ UNCHANGED <<input_files, detectors, xy_written, im_raised, im_returned,
                   integrate_frame>>

\* lines 104-137: one pass of `for i in range(num_files)`, i = len(integrated_patterns)
IntegratePattern ==
    /\ im_pc = "loop"
    /\ Len(integrated_patterns) \in range(Len(config_files[1]))
    /\ LET i == Len(integrated_patterns)
           current_files == [k \in 1 .. Len(detectors) |-> config_files[k][i + 1]]
       IN  /\ integrated_patterns' = Append(integrated_patterns, current_files)
           /\ xy_written' = Append(xy_written, xy_filename(current_files[1], i))
    /\ UNCHANGED <<input_files, detectors, config_files, im_pc, im_raised, im_returned,
                   integrate_frame>>

\* line 139
IntegrateReturns ==
    /\ im_pc = "loop"
    /\ Len(integrated_patterns) \notin range(Len(config_files[1]))
    /\ im_returned' = return_value(integrated_patterns)
    /\ im_pc' = "returned"
    /\ UNCHANGED <<input_files, detectors, config_files, integrated_patterns, xy_written,
                   im_raised, integrate_frame>>

IntegrateNext ==
    \/ NoFilesFound
    \/ NumbersDontMatch
    \/ StartIntegration
    \/ IntegratePattern
    \/ IntegrateReturns

SpecIntegrate == IntegrateInit /\ [][IntegrateNext]_vars

-----------------------------------------------------------------------------
(* The image-combine GUI (el_ltp_tools/image_combine/gui.py): MainWindow     *)
(* runs in the GUI thread, every ConversionWorker.run in a thread of its    *)
(* own; a signal emitted by a worker is queued and handled later by the     *)
(* GUI thread.  A step of the model is one statement group of one thread,   *)
(* so the threads interleave between them.                                  *)

\* the closure custom_print defined by run() of the k-th worker (lines 113-116)
custom_print(k) == [fn |-> "custom_print", of |-> k]

\* lines 48-87, ConversionWorker.__init__: `self._original_print = print`
\* reads the name print, which is builtins.print at that moment
ConversionWorker(print_now) ==
    [is_running |-> TRUE, original_print |-> print_now, pc |-> "started",
     exception |-> "none", running_at_completion |-> "n/a", emitted |-> <<>>]

\* lines 89-91, ConversionWorker.stop
stop(w) == [w EXCEPT !.is_running = FALSE]

\* lines 593-594
buttons_after_start == [start_button |-> FALSE, stop_button |-> TRUE]

\* a stop that leaves the stop button enabled
buttons_after_stop_still_enabled == [start_button |-> TRUE, stop_button |-> TRUE]

\* lines 621-622 and 626-627
buttons_after_stop == [start_button |-> TRUE, stop_button |-> FALSE]

\* every exception reported, stopped or not
emits_every_error(exception, is_running) == TRUE

\* lines 146-152: FileNotFoundError and PermissionError are always reported,
\* any other exception only `if self._is_running`
emits_error(exception, is_running) ==
    exception \in {"FileNotFoundError", "PermissionError"} \/ is_running

\* the text of the error signal
error_signal(exception) ==
    IF exception = "FileNotFoundError" THEN "error: File or directory not found"
    ELSE IF exception = "PermissionError" THEN "error: Permission denied"
    ELSE "error: An unexpected error occurred"

Exceptions == {"FileNotFoundError", "PermissionError", "ValueError"}

\* lines 337-362 and 410: the window as constructed
GuiInit ==
    /\ calls \in {"events", "direct"}
    /\ gui_op = "none"
    /\ start_button = TRUE
    /\ stop_button = FALSE
    /\ worker = 0
    /\ workers = <<>>
    /\ builtins_print = builtin_print
    /\ signals = <<>>
    /\ DetectOff
    /\ CombineOff
    /\ IterOff
    /\ ArgsOff
    /\ GroupsOff
    /\ ProcessOff
    /\ IntegrateOff

\* a method connected to the clicks of a button runs when the enabled button
\* is clicked, or when it is called directly
Clicked(button_enabled) == button_enabled \/ calls = "direct"

\* lines 607-622, stop_conversion
stop_conversion ==
    IF worker # 0
    THEN /\ workers' = [workers EXCEPT ![worker] = stop(@)]
         /\ start_button' = buttons_after_stop.start_button
         /\ stop_button' = buttons_after_stop.stop_button
    ELSE UNCHANGED <<workers, start_button, stop_button>>

\* lines 552-570: the table gives no valid configuration; handle_error logs
\* the message and calls stop_conversion
StartConversionInvalid ==
    /\ calls # "off"
    /\ Clicked(start_button)
    /\ stop_conversion
    /\ gui_op' = "start_conversion_invalid"
    /\ UNCHANGED <<calls, worker, builtins_print, signals, gui_frame>>

\* lines 552-594: a worker is constructed, connected and started
StartConversion ==
    /\ calls # "off"
    /\ Clicked(start_button)
    /\ Len(workers) < MaxWorkers
    /\ workers' = Append(workers, ConversionWorker(builtins_print))
    /\ worker' = Len(workers) + 1
    /\ start_button' = buttons_after_start.start_button
    /\ stop_button' = buttons_after_start.stop_button
    /\ gui_op' = "start_conversion"
    /\ UNCHANGED <<calls, builtins_print, signals, gui_frame>>

\* lines 607-622: the stop button is clicked
StopConversion ==
    /\ calls # "off"
    /\ Clicked(stop_button)
    /\ stop_conversion
    /\ gui_op' = "stop_conversion"
    /\ UNCHANGED <<calls, worker, builtins_print, signals, gui_frame>>

\* lines 596-605: the GUI thread handles a queued error signal
HandleErrorSignal ==
    /\ signals # <<>>
    /\ Head(signals).signal # "finished"
    /\ signals' = Tail(signals)
    /\ stop_conversion
    /\ gui_op' = "handle_error"
    /\ UNCHANGED <<calls, worker, builtins_print, gui_frame>>

\* lines 596-605: handle_error called directly
HandleErrorCalled ==
    /\ calls = "direct"
    /\ stop_conversion
    /\ gui_op' = "handle_error"
    /\ UNCHANGED <<calls, worker, builtins_print, signals, gui_frame>>

\* lines 624-637: the GUI thread handles a queued finished signal
ConversionFinishedSignal ==
    /\ signals # <<>>
    /\ Head(signals).signal = "finished"
    /\ signals' = Tail(signals)
    /\ start_button' = buttons_after_stop.start_button
    /\ stop_button' = buttons_after_stop.stop_button
    /\ gui_op' = "conversion_finished"
    /\ UNCHANGED <<calls, worker, workers, builtins_print, gui_frame>>

\* lines 624-637: conversion_finished called directly
ConversionFinishedCalled ==
    /\ calls = "direct"
    /\ start_button' = buttons_after_stop.start_button
    /\ stop_button' = buttons_after_stop.stop_button
    /\ gui_op' = "conversion_finished"
    /\ UNCHANGED <<calls, worker, workers, signals, builtins_print, gui_frame>>

\* the k-th worker after emitting a signal; pc moves on to the finally clause
emit(w, signal) == [w EXCEPT !.emitted = Append(@, signal), !.pc = "finally"]

\* lines 113-121: run() binds builtins.print to its custom_print
RunInstallsPrint ==
    \E k \in 1 .. Len(workers) :
        /\ workers[k].pc = "started"
        /\ builtins_print' = custom_print(k)
        /\ workers' = [workers EXCEPT ![k].pc = "try"]
        /\ UNCHANGED <<calls, gui_op, start_button, stop_button, worker, signals,
                       gui_frame>>

\* lines 123-126: stopped before starting, run() returns through finally
RunStoppedBeforeStart ==
    \E k \in 1 .. Len(workers) :
        /\ workers[k].pc = "try"
        /\ ~workers[k].is_running
        /\ workers' = [workers EXCEPT ![k].pc = "finally"]
        /\ UNCHANGED <<calls, gui_op, start_button, stop_button, worker, builtins_print,
                       signals, gui_frame>>

\* lines 123-140: process_measurements is called
RunCallsProcess ==
    \E k \in 1 .. Len(workers) :
        /\ workers[k].pc = "try"
        /\ workers[k].is_running
        /\ workers' = [workers EXCEPT ![k].pc = "process"]
        /\ UNCHANGED <<calls, gui_op, start_button, stop_button, worker, builtins_print,
                       signals, gui_frame>>

\* lines 128-140: process_measurements returns: its work is done, or its callback
\* should_continue returned False
ProcessReturns ==
    \E k \in 1 .. Len(workers) :
        /\ workers[k].pc = "process"
        /\ workers' = [workers EXCEPT
                          ![k].pc = "returned",
                          ![k].running_at_completion =
                              IF workers[k].is_running THEN "yes" ELSE "no"]
        /\ UNCHANGED <<calls, gui_op, start_button, stop_button, worker, builtins_print,
                       signals, gui_frame>>

\* lines 128-140: process_measurements raises
ProcessRaises ==
    \E k \in 1 .. Len(workers), e \in Exceptions :
        /\ workers[k].pc = "process"
        /\ workers' = [workers EXCEPT
                          ![k].pc = "except",
                          ![k].exception = e,
                          ![k].running_at_completion =
                              IF workers[k].is_running THEN "yes" ELSE "no"]
        /\ UNCHANGED <<calls, gui_op, start_button, stop_button, worker, builtins_print,
                       signals, gui_frame>>

\* lines 143-144: `if self._is_running: self.finished.emit()`
RunEmitsFinished ==
    \E k \in 1 .. Len(workers) :
        /\ workers[k].pc = "returned"
        /\ workers[k].is_running
        /\ workers' = [workers EXCEPT ![k] = emit(@, "finished")]
        /\ signals' = Append(signals, [signal |-> "finished", sender |-> k])
        /\ UNCHANGED <<calls, gui_op, start_button, stop_button, worker, builtins_print,
                       gui_frame>>

\* lines 143-144: the worker was stopped, nothing is emitted
RunSkipsFinished ==
    \E k \in 1 .. Len(workers) :
        /\ workers[k].pc = "returned"
        /\ ~workers[k].is_running
        /\ workers' = [workers EXCEPT ![k].pc = "finally"]
        /\ UNCHANGED <<calls, gui_op, start_button, stop_button, worker, builtins_print,
                       signals, gui_frame>>

\* lines 146-152: an except clause emits the error signal
RunEmitsError ==
    \E k \in 1 .. Len(workers) :
        /\ workers[k].pc = "except"
        /\ emits_error(workers[k].exception, workers[k].is_running)
        /\ workers' = [workers EXCEPT ![k] = emit(@, error_signal(workers[k].exception))]
        /\ signals' = Append(signals, [signal |-> error_signal(workers[k].exception),
                                       sender |-> k])
        /\ UNCHANGED <<calls, gui_op, start_button, stop_button, worker, builtins_print,
                       gui_frame>>

\* lines 150-152: `except Exception` of a stopped worker emits nothing
RunSwallowsError ==
    \E k \in 1 .. Len(workers) :
        /\ workers[k].pc = "except"
        /\ ~emits_error(workers[k].exception, workers[k].is_running)
        /\ workers' = [workers EXCEPT ![k].pc = "finally"]
        /\ UNCHANGED <<calls, gui_op, start_button, stop_button, worker, builtins_print,
                       signals, gui_frame>>

\* lines 153-155: finally: builtins.print = self._original_print; the thread ends
RunRestoresPrint ==
    \E k \in 1 .. Len(workers) :
        /\ workers[k].pc = "finally"
        /\ builtins_print' = workers[k].original_print
        /\ workers' = [workers EXCEPT ![k].pc = "done"]
        /\ UNCHANGED <<calls, gui_op, start_button, stop_button, worker, signals,
                       gui_frame>>

GuiNext ==
    \/ StartConversionInvalid
    \/ StartConversion
    \/ StopConversion
    \/ HandleErrorSignal
    \/ HandleErrorCalled
    \/ ConversionFinishedSignal
    \/ ConversionFinishedCalled
    \/ RunInstallsPrint
    \/ RunStoppedBeforeStart
    \/ RunCallsProcess
    \/ ProcessReturns
    \/ ProcessRaises
    \/ RunEmitsFinished
    \/ RunSkipsFinished
    \/ RunEmitsError
    \/ RunSwallowsError
    \/ RunRestoresPrint

SpecGui == GuiInit /\ [][GuiNext]_vars

----------------------------------------------------------------------------
(* Properties of detect_cosmic_rays, checked under SpecDetect *)

RECURSIVE Mirror(_, _)
\* the sample read at extended index i: the image continued by its mirror image
Mirror(i, n) ==
    IF i < 0 THEN Mirror(-i - 1, n)
    ELSE IF i >= n THEN Mirror(2 * n - 1 - i, n)
    ELSE i

WindowOffsets(size) ==
    LET lo == size \div 2 IN ((-lo) .. (size - lo - 1)) \X ((-lo) .. (size - lo - 1))

WindowSample(img, p, o) ==
    img.px[<<Mirror(p[1] + o[1], img.shape[1]), Mirror(p[2] + o[2], img.shape[2])>>]

IsPositive(x) == ~IsNaN(x) /\ x[1] > 0

\* the window offsets of p whose sample is positive
PositiveOffsets(img, p, size) ==
    { o \in WindowOffsets(size) : IsPositive(WindowSample(img, p, o)) }

RECURSIVE SumInt(_, _)
SumInt(f, S) ==
    IF S = {} THEN 0
    ELSE LET k == CHOOSE x \in S : TRUE IN f[k] + SumInt(f, S \ {k})

LocalCount(img, p, size) == Cardinality(PositiveOffsets(img, p, size))
LocalSum(img, p, size) ==
    SumInt([o \in PositiveOffsets(img, p, size) |-> WindowSample(img, p, o)[1]],
           PositiveOffsets(img, p, size))
LocalSumSq(img, p, size) ==
    SumInt([o \in PositiveOffsets(img, p, size) |->
               WindowSample(img, p, o)[1] * WindowSample(img, p, o)[1]],
           PositiveOffsets(img, p, size))

\* With C = LocalCount, S = LocalSum, Q = LocalSumSq and v the pixel value:
\* local_mean = S / C, local_std = sqrt(Q*C - S*S) / C, so for sigma >= 0
\*   z-score > sigma  iff  Q*C - S*S > 0, v*C - S > 0 and (v*C - S)^2 > sigma^2 * (Q*C - S*S)
\*   value > 2 * local_mean  iff  v*C > 2*S
ZScoreRule(img, p, size, sig) ==
    LET v == img.px[p][1]
        C == LocalCount(img, p, size)
        S == LocalSum(img, p, size)
        Q == LocalSumSq(img, p, size)
        A == v * C - S
        D == Q * C - S * S
    IN  IF D > 0 THEN A > 0 /\ A * A > sig * sig * D ELSE 0 > sig

IntensityRule(img, p, size) ==
    img.px[p][1] * LocalCount(img, p, size) > 2 * LocalSum(img, p, size)

ExpectedFlag(img, p, size, sig, min_int) ==
    /\ IsPositive(img.px[p])
    /\ img.px[p][1] > min_int
    /\ (ZScoreRule(img, p, size, sig) \/ IntensityRule(img, p, size))

\* C4: the mask returned by detect_cosmic_rays has the shape of the image, and a
\* pixel is true in it exactly when its value is > 0, > min_intensity, and
\* either its z-score against the positive pixels of its window exceeds sigma
\* or its value exceeds twice their mean.
C4_MaskIsTheRule ==
    detect_pc = "returned" =>
        /\ DOMAIN detect_mask = PixelsOf(data.shape)
        /\ \A p \in PixelsOf(data.shape) :
              detect_mask[p] = ExpectedFlag(data, p, window_size, sigma, min_intensity)

C4_Witness ==
    /\ detect_pc = "returned"
    /\ window_size = 3
    /\ \E p, q, r \in PixelsOf(data.shape) :
          /\ detect_mask[p] /\ ~ZScoreRule(data, p, window_size, sigma)
          /\ IsPositive(data.px[q]) /\ ~detect_mask[q]
          /\ ~IsPositive(data.px[r])

\* C5: detect_cosmic_rays never flags a pixel whose value is <= 0 or
\* <= min_intensity; on an image with no positive pixel the mask is all false.
C5_NeverFlagsLowPixels ==
    detect_pc = "returned" =>
        /\ \A p \in PixelsOf(data.shape) :
              detect_mask[p] => (IsPositive(data.px[p]) /\ data.px[p][1] > min_intensity)
        /\ (\A p \in PixelsOf(data.shape) : ~IsNaN(data.px[p]) /\ data.px[p][1] <= 0)
              => \A p \in PixelsOf(data.shape) : ~detect_mask[p]

\* a pixel <= 0 next to a positive pixel that the rules select and only the
\* min_intensity floor keeps out of the mask
C5_Witness ==
    /\ detect_pc = "returned"
    /\ \E p, q \in PixelsOf(data.shape) :
          /\ ~IsNaN(data.px[p]) /\ data.px[p][1] <= 0
          /\ IsPositive(data.px[q])
          /\ data.px[q][1] <= min_intensity
          /\ (ZScoreRule(data, q, window_size, sigma) \/ IntensityRule(data, q, window_size))
          /\ ~detect_mask[q]

IsConstantPositive(img) ==
    \E p \in PixelsOf(img.shape) :
        IsPositive(img.px[p]) /\ \A q \in PixelsOf(img.shape) : img.px[q] = img.px[p]

\* C6: on an image whose pixels all hold the same positive value the mask is all
\* false, for every sigma, window_size and min_intensity, borders included.
C6_ConstantImageUnflagged ==
    (detect_pc = "returned" /\ IsConstantPositive(data)) =>
        \A p \in PixelsOf(data.shape) : ~detect_mask[p]

C6_Witness ==
    /\ detect_pc = "returned"
    /\ IsConstantPositive(data)
    /\ data.shape[1] > 1 /\ data.shape[2] > 1
    /\ window_size > 1
    /\ data.px[<<0, 0>>][1] > min_intensity

\* p is the only pixel that differs from the otherwise uniform image
IsSingleSpike(img, p) ==
    /\ Cardinality(PixelsOf(img.shape)) > 1
    /\ \E b \in { img.px[q] : q \in PixelsOf(img.shape) \ {p} } :
          /\ ~IsNaN(b)
          /\ \A q \in PixelsOf(img.shape) \ {p} : img.px[q] = b
          /\ img.px[p] # b

\* C7: a single pixel injected into an otherwise uniform image, whose value
\* exceeds min_intensity and twice its local mean, is flagged; on the 5x5 image
\* of value 10 with pixel (2,2) = 500, sigma 3, window 3, min_intensity 0,
\* pixel (2,2) is flagged and no other pixel is.
C7_InjectedSpikeFlagged ==
    detect_pc = "returned" =>
        /\ \A p \in PixelsOf(data.shape) :
              ( /\ IsSingleSpike(data, p)
                /\ IsPositive(data.px[p])
                /\ data.px[p][1] > min_intensity
                /\ IntensityRule(data, p, window_size) ) => detect_mask[p]
        /\ (data = ScenarioA /\ sigma = 3 /\ window_size = 3 /\ min_intensity = 0)
              => \A p \in PixelsOf(data.shape) : detect_mask[p] = (p = <<2, 2>>)

C7_Witness ==
    /\ detect_pc = "returned"
    /\ data = ScenarioA
    /\ detect_mask[<<2, 2>>]
    /\ ~detect_mask[<<2, 1>>]

\* C8: detect_cosmic_rays never computes a mask with an even window_size: an
\* even value is rejected (or rounded) before any mask is returned.
C8_EvenWindowRejected ==
    detect_pc = "returned" => window_size % 2 = 1

----------------------------------------------------------------------------
(* Properties of combine_images_in_directory, checked under SpecCombine *)

\* the images of the group as stored in the files, in listing order
GroupImages ==
    LET tiff == { i \in 1 .. Len(directory) :
                    directory[i].ext \in {".tif", ".tiff", ".TIF", ".TIFF"} }
        nth(k) == CHOOSE i \in tiff : Cardinality({ j \in tiff : j < i }) = k - 1
    IN  [k \in 1 .. Cardinality(tiff) |-> directory[nth(k)].data]

GroupSameShape == \A i, j \in 1 .. Len(GroupImages) : GroupImages[i].shape = GroupImages[j].shape

\* the images other than i that are not flagged at p
UnflaggedOthers(i, p) == { j \in 1 .. Len(GroupImages) : j # i /\ ~cosmic_masks[j][p] }

MeanOfOthers(i, p) ==
    Div(SumOver([j \in UnflaggedOthers(i, p) |-> GroupImages[j].px[p]], UnflaggedOthers(i, p)),
        Float(Cardinality(UnflaggedOthers(i, p))))

\* what image i contributes at p: its own value, or the mean of the unflagged others
Contribution(i, p) ==
    IF cosmic_masks[i][p] THEN MeanOfOthers(i, p) ELSE GroupImages[i].px[p]

\* the same, falling back to the image's own value when no other image is unflagged
ContributionWithFallback(i, p) ==
    IF cosmic_masks[i][p] /\ UnflaggedOthers(i, p) # {}
    THEN MeanOfOthers(i, p) ELSE GroupImages[i].px[p]

\* every image flagged at p has another image that is not flagged at p
MeanDefined(p) ==
    \A i \in 1 .. Len(GroupImages) : cosmic_masks[i][p] => UnflaggedOthers(i, p) # {}

\* C1: on N >= 2 same-shaped images the output is, at every pixel, the sum over
\* the images of the image's own value where it is not flagged and of the mean
\* of the unflagged other images where it is; with one frame flagged and the
\* other N-1 frames holding the same unflagged value X the output is N * X.
C1_SumOfContributions ==
    (pc = "returned" /\ Len(GroupImages) >= 2 /\ GroupSameShape) =>
        /\ combined.shape = GroupImages[1].shape
        /\ \A p \in PixelsOf(combined.shape) :
              /\ MeanDefined(p) =>
                    combined.px[p] =
                        SumOver([i \in 1 .. Len(GroupImages) |-> Contribution(i, p)],
                                1 .. Len(GroupImages))
              /\ \A i \in 1 .. Len(GroupImages) :
                    ( /\ cosmic_masks[i][p]
                      /\ \A j, k \in 1 .. Len(GroupImages) \ {i} :
                            ~cosmic_masks[j][p] /\ GroupImages[j].px[p] = GroupImages[k].px[p] )
                    => \A j \in 1 .. Len(GroupImages) \ {i} :
                          combined.px[p] = Mul(Float(Len(GroupImages)), GroupImages[j].px[p])

C1_Witness ==
    /\ pc = "returned"
    /\ Len(GroupImages) = 3
    /\ GroupSameShape
    /\ \E p \in PixelsOf(combined.shape) :
          /\ cosmic_masks[1][p] /\ ~cosmic_masks[2][p] /\ ~cosmic_masks[3][p]
          /\ GroupImages[2].px[p] = GroupImages[3].px[p]
          /\ GroupImages[1].px[p] # GroupImages[2].px[p]
          /\ combined.px[p] = Mul(Float(3), GroupImages[3].px[p])

\* C2: on a group of one image the output is that image's original values at
\* every pixel, flagged pixels included, and holds no NaN.
C2_SingleImageKept ==
    (pc = "returned" /\ Len(GroupImages) = 1) => combined = GroupImages[1]

\* C3: on N >= 2 same-shaped finite images a pixel flagged in every image falls
\* back to each image's own value, so the output holds no NaN.
C3_FallbackToOwnValue ==
    (pc = "returned" /\ Len(GroupImages) >= 2 /\ GroupSameShape) =>
        \A p \in PixelsOf(combined.shape) :
            /\ ~IsNaN(combined.px[p])
            /\ combined.px[p] =
                  SumOver([i \in 1 .. Len(GroupImages) |-> ContributionWithFallback(i, p)],
                          1 .. Len(GroupImages))

\* C9: on a directory with no .tif/.tiff file the function raises
\* FileNotFoundError before any image is opened or any detection is run, and
\* returns no image.
C9_EmptyGroupRaises ==
    (Len(GroupImages) = 0 /\ pc # "start") =>
        /\ pc = "raised"
        /\ raised = "FileNotFoundError"
        /\ imgs_data = <<>>
        /\ cosmic_masks = <<>>
        /\ cosmic_counts = <<>>
        /\ combined = NoArray

C9_Witness ==
    /\ pc = "raised"
    /\ raised = "FileNotFoundError"
    /\ Len(directory) > 0
    /\ cosmic_iterations > 0

\* C10: on a group holding two images of different shapes the function raises
\* and never returns a combined image.
C10_ShapeMismatchRejected ==
    ~GroupSameShape => pc # "returned"

----------------------------------------------------------------------------
(* Properties of the iterative removers, checked under SpecIter *)

IsApplyThreshold == it_fn = "apply_threshold"
IsMultipleIterations == it_fn = "detect_cosmic_rays_multiple_iterations"

\* the pixels a detection round on the caller's array would flag
WouldFlag ==
    { p \in PixelsOf(it_arg.shape) :
        it_sigma # None /\ detect_cosmic_rays(it_arg, it_sigma[1], it_window, it_min)[p] }

\* C11: with iterations = 0 no detection round is performed: apply_threshold
\* returns an image equal to its input, with no pixel newly missing, and
\* detect_cosmic_rays_multiple_iterations returns an all-false mask; neither raises.
C11_ZeroIterationsNoRound ==
    (it_iterations = 0 /\ it_pc # "off") =>
        /\ it_round_masks = <<>>
        /\ it_counts = <<>>
        /\ it_pc # "raised"
        /\ (it_pc = "returned" /\ IsApplyThreshold) => it_returned = it_arg
        /\ (it_pc = "returned" /\ IsMultipleIterations) =>
               /\ it_returned.shape = it_arg.shape
               /\ \A p \in PixelsOf(it_arg.shape) : it_returned.px[p] = FALSE

C11_Witness ==
    /\ it_iterations = 0
    /\ it_pc = "returned"
    /\ IsApplyThreshold
    /\ it_sigma # None
    /\ WouldFlag # {}

FlaggedInSomeRound(p) == \E r \in 1 .. Len(it_round_masks) : it_round_masks[r][p]

\* C12: the remover works on a private copy: no step of the call changes the
\* caller's array, and when apply_threshold returns, a pixel of the returned
\* image is NaN exactly when some round flagged it and otherwise holds the
\* input value (nothing is filled in); the mask returned by
\* detect_cosmic_rays_multiple_iterations marks exactly the flagged pixels.
C12_PrivateCopy ==
    [][ /\ it_arg' = it_arg
        /\ (it_pc' = "returned" /\ IsApplyThreshold) =>
               /\ it_returned'.shape = it_arg.shape
               /\ \A p \in PixelsOf(it_arg.shape) :
                      /\ it_returned'.px[p] =
                            IF FlaggedInSomeRound(p)' THEN NaN ELSE it_arg.px[p]
                      /\ ~IsNaN(it_arg.px[p]) =>
                            (IsNaN(it_returned'.px[p]) <=> FlaggedInSomeRound(p)')
        /\ (it_pc' = "returned" /\ IsMultipleIterations) =>
               \A p \in PixelsOf(it_arg.shape) :
                   it_returned'.px[p] = FlaggedInSomeRound(p)' ]_vars

C12_Witness ==
    /\ it_pc = "returned"
    /\ IsApplyThreshold
    /\ Len(it_round_masks) = 2
    /\ \E p, q, r \in PixelsOf(it_arg.shape) :
          /\ it_round_masks[1][p] /\ IsNaN(it_returned.px[p]) /\ ~IsNaN(it_arg.px[p])
          /\ it_round_masks[2][q] /\ IsNaN(it_returned.px[q]) /\ ~IsNaN(it_arg.px[q])
          /\ ~FlaggedInSomeRound(r) /\ IsPositive(it_returned.px[r])

\* C13: detect_cosmic_rays_multiple_iterations called with sigma = None performs
\* no detection: it does not raise, and the mask it returns flags no pixel.
C13_NoneSigmaNoDetection ==
    (IsMultipleIterations /\ it_sigma = None) =>
        /\ it_pc # "raised"
        /\ it_round_masks = <<>>
        /\ it_pc = "returned" => \A p \in PixelsOf(it_arg.shape) : it_returned.px[p] = FALSE

----------------------------------------------------------------------------
(* Properties of get_directory_groups, checked under SpecGroups *)

ConfiguredItems == config[1]
CountOf(k) == ConfiguredItems[k].count.value

RECURSIVE SumCounts(_)
SumCounts(k) == IF k = 0 THEN 0 ELSE SumCounts(k - 1) + CountOf(k)

\* the indices the k-th configured group is given
AssignedIndices(k) == (start_idx + SumCounts(k - 1)) .. (start_idx + SumCounts(k) - 1)

\* the indices i for which a directory named g<i>... exists
ExistingIndices ==
    { input_directory.entries[j].number : j \in
        { j \in 1 .. Len(input_directory.entries) :
            input_directory.entries[j].stem = "g" /\ input_directory.entries[j].isdir } }

\* the configured groups that have an existing directory, in configuration order
GroupsWithDirectories ==
    SelectSeq([k \in 1 .. Len(ConfiguredItems) |-> k],
              LAMBDA k : AssignedIndices(k) \cap ExistingIndices # {})

GroupingAsConfigured ==
    LET r == groups_returned
        ks == GroupsWithDirectories
    IN  /\ Len(r.groups) = Len(ks)
        /\ \A g \in 1 .. Len(ks) :
              LET dirs == r.groups[g].directories
              IN  /\ r.groups[g].name = ConfiguredItems[ks[g]].name
                  /\ \A i \in 1 .. Len(dirs) :
                        /\ dirs[i].stem = "g" /\ dirs[i].isdir
                        /\ \E j \in 1 .. Len(input_directory.entries) :
                              input_directory.entries[j] = dirs[i]
                  /\ \A i \in 1 .. Len(dirs) - 1 : dirs[i].number < dirs[i + 1].number
                  /\ { dirs[i].number : i \in 1 .. Len(dirs) } =
                        AssignedIndices(ks[g]) \cap ExistingIndices
        /\ r.current_index = start_idx + SumCounts(Len(ConfiguredItems))

C16_InvalidConfigurationRaisesValueError ==
    (/\ groups_pc # "called"
     /\ \/ config = <<>>
        \/ \E k \in 1 .. Len(ConfiguredItems) : ConfiguredItems[k].count.type # "int") =>
        /\ groups_pc = "raised"
        /\ groups_returned.raised = "ValueError"

----------------------------------------------------------------------------
(* Properties of process_measurements, checked under SpecProcess *)

Occurs(ev) == \E i \in 1 .. Len(events) : events[i] = ev
CountOfEvent(ev) == Cardinality({ i \in 1 .. Len(events) : events[i] = ev })

\* C14: when combining a directory of a group fails, the failure leaves
\* process_measurements as an exception at once, and no file is ever written
\* from the sum of only some of its group's directories.
C14_FailureSurfaced ==
    /\ Occurs("combine_failed") => (pm_pc = "raised" /\ events[Len(events)] = "combine_failed")
    /\ \A i \in 1 .. Len(written) : written[i].data = written[i].group.directories

\* the configuration is a dict of non-negative integer counts
CountsAreNatural ==
    /\ config # <<>>
    /\ \A k \in 1 .. Len(ConfiguredItems) :
          ConfiguredItems[k].count.type = "int" /\ CountOf(k) >= 0

\* T: the sum of the configured counts
TotalCount == SumCounts(Len(ConfiguredItems))

\* the indices of the k-th configured group in the m-th measurement
Covered(m, k) ==
    (start_index + (m - 1) * TotalCount + SumCounts(k - 1)) ..
    (start_index + (m - 1) * TotalCount + SumCounts(k) - 1)

EntriesNamed(i) ==
    { j \in 1 .. Len(input_directory.entries) :
        input_directory.entries[j].stem = "g" /\ input_directory.entries[j].number = i }

\* the directory of index i exists and combine_images_in_directory succeeds on it
CombinesAt(i) ==
    /\ EntriesNamed(i) # {}
    /\ LET j == CHOOSE j \in EntriesNamed(i) : \A l \in EntriesNamed(i) : j <= l
       IN  input_directory.entries[j].isdir /\ input_directory.entries[j] \notin failing

ExpectedFile(m, k) == \E i \in Covered(m, k) : CombinesAt(i)

FourDigits(m) == <<m \div 1000, (m \div 100) % 10, (m \div 10) % 10, m % 10>>

FileName(m, k) ==
    [prefix |-> prefix, group |-> ConfiguredItems[k].name, number |-> FourDigits(m),
     ext |-> ".tif"]

Contributing ==
    UNION { { written[i].data[j] : j \in 1 .. Len(written[i].data) } : i \in 1 .. Len(written) }
    \cup (IF combined_data = None THEN {}
          ELSE { combined_data[1][j] : j \in 1 .. Len(combined_data[1]) })

\* C18: for start_index <= end_index only directories with an index from
\* start_index up to and including end_index are combined: no directory of a
\* greater index is part of the running sum or of a written file.
C18_NothingBeyondEndIndex ==
    start_index <= end_index =>
        \A d \in Contributing : d.number \in start_index .. end_index

\* C19: with a callback, every measurement, every group and every directory is
\* preceded by an invocation of the callback, and once an invocation returned
\* False that is the last thing the call did: it has returned, no directory was
\* combined and no file written after it, the group in progress staying unwritten.
C19_CooperativeStop ==
    callback = "callable" =>
        /\ \A i \in 1 .. Len(events) :
              events[i] \in {"measurement", "group", "combine", "combine_failed"} =>
                  (i > 1 /\ events[i - 1] = "callback")
        /\ Len(written) = CountOfEvent("save")
        /\ Occurs("callback_false") =>
              /\ events[Len(events)] = "callback_false"
              /\ CountOfEvent("callback_false") = 1
              /\ pm_pc = "returned"

C19_Witness ==
    /\ callback = "callable"
    /\ pm_pc = "returned"
    /\ Len(events) >= 2
    /\ events[Len(events)] = "callback_false"
    /\ events[Len(events) - 1] = "combine"
    /\ combined_data # None
    /\ Len(written) = 1
    /\ measurement_number = 1

----------------------------------------------------------------------------
(* Properties of integrate_multi, checked under SpecIntegrate *)

\* C20: integrate_multi returns a pair (integrated_patterns, output_filenames)
\* with one filename per integrated pattern, the set of the returned filenames
\* being the set of the .xy files it wrote.
C20_ReturnsPatternsAndFilenames ==
    im_pc = "returned" =>
        /\ im_returned.type = "tuple"
        /\ Len(im_returned.items) = 2
        /\ im_returned.items[1] = List(integrated_patterns)
        /\ im_returned.items[2].type = "list"
        /\ Len(im_returned.items[2].items) = Len(integrated_patterns)
        /\ { im_returned.items[2].items[i] : i \in 1 .. Len(im_returned.items[2].items) } =
              { xy_written[i] : i \in 1 .. Len(xy_written) }

\* the input files that match the k-th configured detector
MatchingFiles(k) == { f \in input_files : f.detector = detectors[k] /\ f.ext = ".tif" }

SameNonZeroNumber ==
    /\ \A k \in 1 .. Len(detectors) : Cardinality(MatchingFiles(k)) = Cardinality(MatchingFiles(1))
    /\ Cardinality(MatchingFiles(1)) > 0

\* C21: integrate_multi integrates only when every configured detector has
\* the same non-zero number of matching files; in every other case (numbers
\* that differ, or no matching file at all) it raises ValueError and writes no
\* .xy file.
C21_MismatchRaisesBeforeOutput ==
    im_pc # "called" =>
        IF SameNonZeroNumber
        THEN im_pc \in {"loop", "returned"} /\ im_raised = "none"
        ELSE im_pc = "raised" /\ im_raised = "ValueError" /\ xy_written = <<>>
                /\ integrated_patterns = <<>>

C21_Witness ==
    /\ im_pc = "raised"
    /\ im_raised = "ValueError"
    /\ Len(detectors) = 2
    /\ Cardinality(MatchingFiles(1)) = MaxPattern
    /\ Cardinality(MatchingFiles(2)) = MaxPattern - 1
    /\ xy_written = <<>>

\* the number that a sequence of decimal digits writes
RECURSIVE DecimalValue(_)
DecimalValue(digits) ==
    IF digits = <<>> THEN 0
    ELSE 10 * DecimalValue(SubSeq(digits, 1, Len(digits) - 1)) + digits[Len(digits)]

\* C22: every written .xy file is named <file_prefix>_<pattern_number>.xy with
\* the pattern number of the input files it was integrated from: the files of
\* one pass all carry one pattern number, and the output carries that number
\* (compared as numbers, whatever the zero padding) after the file prefix.
C22_OutputKeepsPatternNumber ==
    \A j \in 1 .. Len(xy_written) :
        \A k \in 1 .. Len(integrated_patterns[j]) :
            /\ xy_written[j].prefix = integrated_patterns[j][k].prefix
            /\ DecimalValue(xy_written[j].number) = integrated_patterns[j][k].number

-----------------------------------------------------------------------------
(* Further properties of the iterative detection loop, checked under SpecIter *)

TruePixels(mask) == { p \in DOMAIN mask : mask[p] }

RECURSIVE SumSeq(_)
SumSeq(seq) == IF seq = <<>> THEN 0 ELSE SumSeq(SubSeq(seq, 1, Len(seq) - 1)) + seq[Len(seq)]

\* C26: in the iterative detection loop the per-round masks are pairwise
\* disjoint, a pixel flagged in a round is missing (NaN) in the working image
\* afterwards, the combined mask is the logical OR of the per-round masks, every
\* round appends its number of flagged pixels to the counts, and when the loop
\* is over the counts have exactly `iterations` entries whose sum is the number
\* of true pixels of the combined mask.
C26_RoundsDisjointAndCounted ==
    it_pc \in {"loop", "returned"} /\ it_sigma # None =>
        /\ \A r1, r2 \in 1 .. Len(it_round_masks) :
               r1 # r2 => TruePixels(it_round_masks[r1]) \cap TruePixels(it_round_masks[r2]) = {}
        /\ \A p \in PixelsOf(it_image.shape) : FlaggedInSomeRound(p) => IsNaN(it_image.px[p])
        /\ Len(it_counts) = Len(it_round_masks)
        /\ \A r \in 1 .. Len(it_counts) : it_counts[r] = Cardinality(TruePixels(it_round_masks[r]))
        /\ IsMultipleIterations =>
               /\ \A p \in PixelsOf(it_image.shape) : combined_mask[p] = FlaggedInSomeRound(p)
               /\ SumSeq(it_counts) = Cardinality(TruePixels(combined_mask))
        /\ it_pc = "returned" => Len(it_counts) = it_iterations

C26_Witness ==
    /\ it_pc = "returned"
    /\ IsMultipleIterations
    /\ Len(it_round_masks) = 2
    /\ TruePixels(it_round_masks[1]) # {}
    /\ TruePixels(it_round_masks[2]) # {}
    /\ SumSeq(it_counts) = 2

SomeRoundFlaggedNothing == \E r \in 1 .. Len(it_counts) : it_counts[r] = 0

-----------------------------------------------------------------------------
(* A further property of detect_cosmic_rays, checked under SpecDetect *)

\* the pixel that the window sample of p at offset o reads
WindowPixel(img, p, o) ==
    <<Mirror(p[1] + o[1], img.shape[1]), Mirror(p[2] + o[2], img.shape[2])>>

\* p is positive and every sample of its window read from another pixel is
\* <= 0 or missing
OnlyPositiveOfItsWindow(img, p, size) ==
    /\ IsPositive(img.px[p])
    /\ \A o \in WindowOffsets(size) :
           WindowPixel(img, p, o) # p => ~IsPositive(WindowSample(img, p, o))

\* C28: detect_cosmic_rays never flags a positive pixel that is the only
\* positive pixel of its window, whatever its value, sigma and min_intensity;
\* with window_size = 1 the mask is all false.
C28_LonePositivePixelNotFlagged ==
    detect_pc = "returned" =>
        /\ \A p \in PixelsOf(data.shape) :
               OnlyPositiveOfItsWindow(data, p, window_size) => ~detect_mask[p]
        /\ window_size = 1 => \A p \in PixelsOf(data.shape) : ~detect_mask[p]

\* a lone pixel of value 9 above min_intensity, with a non-positive neighbour
\* in its window of three
C28_Witness ==
    /\ detect_pc = "returned"
    /\ window_size = 3
    /\ min_intensity = 0
    /\ \E p, q \in PixelsOf(data.shape) :
          /\ p # q
          /\ data.px[p] = Float(9)
          /\ OnlyPositiveOfItsWindow(data, p, window_size)
          /\ \E o \in WindowOffsets(window_size) : WindowPixel(data, p, o) = q
          /\ ~detect_mask[p]

-----------------------------------------------------------------------------
(* Termination of process_measurements, checked under FairSpecProcess *)

\* the passes of the while loop begun so far
PassesBegun ==
    IF pm_pc \in {"group", "directory"} THEN measurement_number
    ELSE IF pm_pc = "while" THEN measurement_number - 1
    ELSE 0

ProcessDone == pm_pc \in {"returned", "raised"}

\* C29: process_measurements terminates: every pass of its while loop that
\* neither raises nor returns ends with current_index strictly greater than it
\* began, at most end_index - start_index + 1 passes are begun (none when
\* end_index < start_index), and the call eventually returns or raises.
C29_Terminates ==
    /\ [][ /\ (pm_pc = "group" /\ pm_pc' = "while") => current_index' > current_index
           /\ (start_index <= end_index) => PassesBegun' <= end_index - start_index + 1
           /\ (start_index > end_index) => PassesBegun' = 0 ]_vars
    /\ <>ProcessDone

\* the loop has run its greatest number of passes, one directory each, and returned
C29_Witness ==
    /\ pm_pc = "returned"
    /\ start_index = 1
    /\ end_index = MaxIndex
    /\ measurement_number - 1 = MaxIndex
    /\ current_index = MaxIndex + 1
    /\ Len(written) = MaxIndex

-----------------------------------------------------------------------------
(* Properties of the image-combine GUI, checked under SpecGui *)

\* C23: exactly one of start_button and stop_button is enabled in every
\* state: start enabled and stop disabled before any operation, the reverse
\* after start_conversion started a worker, and start enabled and stop disabled
\* after stop_conversion, handle_error (also when start_conversion calls it
\* for an invalid configuration) or conversion_finished.
C23_ExactlyOneButtonEnabled ==
    calls # "off" =>
        /\ start_button # stop_button
        /\ gui_op = "none" => (start_button /\ ~stop_button)
        /\ gui_op = "start_conversion" => (~start_button /\ stop_button)
        /\ gui_op \in {"stop_conversion", "handle_error", "conversion_finished",
                       "start_conversion_invalid"} =>
               (start_button /\ ~stop_button)

\* a second worker was started and stopped by the error signal of the first
C23_Witness ==
    /\ calls = "events"
    /\ Len(workers) = 2
    /\ worker = 2
    /\ gui_op = "handle_error"
    /\ ~workers[2].is_running
    /\ workers[1].emitted # <<>>
    /\ start_button /\ ~stop_button

Emitted(k, signal) == \E i \in 1 .. Len(workers[k].emitted) : workers[k].emitted[i] = signal

AllWorkersDone == \A k \in 1 .. Len(workers) : workers[k].pc = "done"

\* C25: whenever every started worker has finished, builtins.print is the
\* function that was installed before any worker ran (operations run on clicks
\* and signals only).
C25_PrintRestored ==
    (calls = "events" /\ AllWorkersDone) => builtins_print = builtin_print

Processing == { k \in 1 .. Len(workers) : workers[k].pc = "process" }

\* C30: at most one ConversionWorker thread is executing process_measurements
\* at any time (operations run on clicks and signals only).
C30_OneWorkerProcessing ==
    calls = "events" => Cardinality(Processing) <= 1

====
